---- MODULE Spec2Model ----
(***************************************************************************)
(* Teboraw 2.0 operator scripts as state machines.                         *)
(*                                                                         *)
(*   scripts/deploy.py        the production deploy CLI  (SpecDeploy)      *)
(*   scripts/mobile_setup.py  the mobile setup/deploy tool (SpecMobile)    *)
(*                            its rebuild check       (SpecRebuild)    *)
(*   scripts/run.py           the stack launcher          (SpecRun)        *)
(*   scripts/setup.py         the setup script            (SpecSetup)      *)
(*   scripts/start-desktop.py the desktop app launcher    (SpecDesktop)    *)
(*                                                                         *)
(* Every subprocess the scripts start is an input: its exit status is      *)
(* drawn from RCs.  Every prompt is an input drawn from a small set.       *)
(* What a script issues and prints is recorded in a log, one event per     *)
(* subprocess and per status line, in program order.                       *)
(***************************************************************************)
EXTENDS Integers, Sequences, FiniteSets, TLC

VARIABLES
    \* ---- deploy.py ----
    fileExists,   \* os.path.exists(CONFIG_FILE)
    file,         \* the JSON object stored in .deploy.json (a key -> value map)
    config,       \* the in-memory configuration dict of the running process
    d_pc,         \* position of the deploy CLI process
    d_mode,       \* "none" | "cli" | "menu"
    d_arg,        \* args.command
    d_cmd,        \* the handler that is running
    d_svcs,       \* args.services
    d_i,          \* loop index of the running handler
    d_exit,       \* process exit status, -1 while running
    d_log,        \* subprocesses issued and status lines printed, in order
    d_called,     \* handlers called by main's dispatch line
    d_targets,    \* server_host of every ssh/scp/rsync target built
    d_tars,       \* services whose image archive (tar_path) this process left on disk
    \* ---- mobile_setup.py ----
    m_pc,         \* position of the mobile tool process
    shellEnv,     \* ANDROID_HOME is set in the shell that launches the tool
    procEnv,      \* os.environ has ANDROID_HOME in the running process
    sdkFound,     \* an Android SDK exists at one of the common paths
    profileBlocks,\* export blocks present in the shell profile file
    bundler,      \* bundler processes spawned by the tool: pid -> state
    m_wait,       \* iterations done in start_metro_background's wait loop
    m_ret,        \* where start_metro_background returns to
    m_runs,       \* invocations of the mobile tool so far
    m_dash,       \* what display_dashboard last returned
    m_act,        \* the menu choice being served, "none" at the prompt
    m_target,     \* device_id the deploy goes to
    m_log,        \* what the menu action ran and said since the screen
                  \* was cleared, in order
    m_how,        \* how the last run of the tool ended
    \* ---- run.py ----
    r_pc,         \* position of the run script process
    r_local,      \* deploy_mode == 'local'
    r_cmd,        \* args.command
    r_called,     \* branches of main's command dispatch that were taken
    r_log,        \* subprocesses run, children spawned, sleeps, in order
    r_kids,       \* background children: name -> state, tracked, signalled
    r_exit,       \* process exit status, -1 while running
    \* ---- setup.py ----
    s_pc,         \* position of the setup script process
    s_mode,       \* deploy_mode
    s_log,        \* subprocesses run and sleeps, in order
    s_exit,       \* process exit status, -1 while running
    s_t,          \* time.time() - start_time of the wait loop that runs
    s_probes,     \* probes made by the wait loop that runs
    s_hit,        \* a probe of the wait loop succeeded
    s_ret,        \* what each wait loop returned, "none" before it returns
    \* ---- start-desktop.py ----
    sd_pc,        \* position of the desktop launcher process
    sd_cmd,       \* command
    sd_log,       \* subprocesses run and messages printed, in order
    sd_ret,       \* return values of build_desktop and package_desktop
    sd_exit,      \* process exit status, -1 while running
    \* ---- mobile_setup.py, check_rebuild_needed ----
    rb_pc,        \* "idle" before the call, "done" after it
    rb_build,     \* st_mtime of the debug artifact, NONE when it is absent
    rb_files,     \* the files under the source paths
    rb_zone,      \* the local time zone
    rb_out        \* what check_rebuild_needed returned

cfgVars    == <<fileExists, file, config>>
deployVars == <<fileExists, file, config, d_pc, d_mode, d_arg, d_cmd, d_svcs,
                d_i, d_exit, d_log, d_called, d_targets, d_tars>>
mobileMenuVars == <<m_dash, m_act, m_target, m_log, m_how>>
mobileVars == <<m_pc, shellEnv, procEnv, sdkFound, profileBlocks, bundler,
                m_wait, m_ret, m_runs, mobileMenuVars>>
runVars    == <<r_pc, r_local, r_cmd, r_called, r_log, r_kids, r_exit>>
setupVars  == <<s_pc, s_mode, s_log, s_exit, s_t, s_probes, s_hit, s_ret>>
desktopVars == <<sd_pc, sd_cmd, sd_log, sd_ret, sd_exit>>
rebuildVars == <<rb_pc, rb_build, rb_files, rb_zone, rb_out>>
vars       == <<deployVars, mobileVars, runVars, setupVars, desktopVars,
                rebuildVars>>

\* What an action of one script leaves alone: the state of the other scripts.
nonDeployVars == <<mobileVars, runVars, setupVars, desktopVars, rebuildVars>>
nonMobileVars == <<deployVars, runVars, setupVars, desktopVars, rebuildVars>>
nonRunVars    == <<deployVars, mobileVars, setupVars, desktopVars, rebuildVars>>
nonSetupVars  == <<deployVars, mobileVars, runVars, desktopVars, rebuildVars>>
nonDesktopVars == <<deployVars, mobileVars, runVars, setupVars, rebuildVars>>
nonRebuildVars == <<deployVars, mobileVars, runVars, setupVars, desktopVars>>

\* The elements of a sequence.
Range(f) == { f[i] : i \in DOMAIN f }

(***************************************************************************)
(* Bounds of the model.                                                    *)
(***************************************************************************)
MaxFailures == 2   \* failing subprocesses in one handler run
MaxMobileRuns == 2 \* invocations of the mobile tool in one behaviour
MaxBundlers == 2   \* bundler processes the tool may spawn in one behaviour
MaxProbeTime == 1  \* seconds one readiness probe may take
MaxSignals == 1    \* signals delivered to the run script in one invocation
MaxMonitorRounds == 2 \* passes of the monitor loop in one invocation
MaxTime == 3       \* file modification timestamps are 1 .. MaxTime
DstShift == 2      \* ticks the local clock is set back when DST ends

(***************************************************************************)
(* deploy.py: configuration                                                *)
(***************************************************************************)
DEFAULT_CONFIG ==
    [server_host  |-> "",
     server_user  |-> "root",
     server_path  |-> "/opt/teboraw",
     domain       |-> "",
     compose_file |-> "docker-compose.prod.yml"]

KnownKeys == DOMAIN DEFAULT_CONFIG

\* list(DEFAULT_CONFIG.keys()): dict order is insertion order
KeyOrder == <<"server_host", "server_user", "server_path", "domain", "compose_file">>

\* A key a hand-edited .deploy.json may hold besides the known ones.
UnknownKeys == {"extra"}
AllKeys == KnownKeys \cup UnknownKeys

\* Values typed by the user or found in the file.
Vals == {"", "h1"}

StoredVals(k) == IF k \in {"server_host", "domain"} THEN {"", "h1"} ELSE {"h1"}

\* The JSON objects .deploy.json may hold before the CLI first reads it.
\* The keys the file may hold at first.
StoredKeys == {"server_host", "server_user", "domain", "extra"}

InitFiles ==
    UNION { { f \in [D -> Vals] : \A k \in D : f[k] \in StoredVals(k) }
            : D \in SUBSET StoredKeys }

EmptyRec == [k \in {} |-> ""]

\* {**a, **b}
Merge(a, b) ==
    [k \in (DOMAIN a) \cup (DOMAIN b) |-> IF k \in DOMAIN b THEN b[k] ELSE a[k]]

\* d[key] = value
Put(d, key, value) ==
    [k \in (DOMAIN d) \cup {key} |-> IF k = key THEN value ELSE d[k]]

load_config_defaults_win ==
    IF fileExists THEN Merge(file, DEFAULT_CONFIG) ELSE DEFAULT_CONFIG

load_config ==
    IF fileExists THEN Merge(DEFAULT_CONFIG, file) ELSE DEFAULT_CONFIG

\* save_config(c): json.dump(c) over CONFIG_FILE
save_config(c) ==
    /\ file' = c
    /\ fileExists' = TRUE

(***************************************************************************)
(* deploy.py: log events and subprocess results                            *)
(***************************************************************************)
NOTFOUND == 127   \* FileNotFoundError: the program is not installed
NONE == -1        \* run() returned None

\* How a subprocess may end: exit status 0, a non-zero exit status, or the
\* program is missing.
RCs == {0, 1, NOTFOUND}

\* A subprocess was started through `kind`; rc is what the script got back.
Ev(kind, name, rc) == [k |-> kind, n |-> name, rc |-> rc]
Say(kind, name)    == [k |-> kind, n |-> name, rc |-> 0]

IsRun(e) == e.k \in {"ssh", "scp", "rsync", "local"}

Fails(log) == Cardinality({ i \in DOMAIN log : IsRun(log[i]) /\ log[i].rc # 0 })

\* Exit statuses a subprocess started now may end with.
Outcomes == IF Fails(d_log) < MaxFailures THEN RCs ELSE {0}

\* run(cmd, check): None when the program is missing, or when check is set
\* and the exit status is non-zero; otherwise the result, here its returncode.
run(rc, check) ==
    IF rc = NOTFOUND \/ (check /\ rc # 0) THEN NONE ELSE rc

\* run_remote(config, cmd, check) is run(remote_cmd(config, cmd), check=check)
run_remote(rc, check) == run(rc, check)

Log(evs) == d_log' = d_log \o evs

\* ssh_target(config) is built: the host that goes into it
Target == d_targets' = d_targets \cup {config["server_host"]}

Exit(code) ==
    /\ d_pc' = "exited"
    /\ d_exit' = code

\* Menu handlers after which the menu calls pause().
Pauses == {"cmd_setup", "cmd_setup_caddy", "cmd_setup_env", "cmd_deploy",
           "cmd_build", "cmd_push", "cmd_migrate", "cmd_status", "cmd_restart",
           "cmd_ssh_agent", "cmd_backup"}

\* The handler returns to its caller: main (the process ends with status 0) or
\* the menu loop.  The menu reloads the configuration after choices '2' and
\* 'c', and waits for Enter after most handlers.
Return ==
    IF d_mode = "cli"
    THEN /\ Exit(0)
         /\ UNCHANGED config
    ELSE /\ d_pc' = IF d_cmd \in Pauses THEN "pause" ELSE "menu"
         /\ config' = IF d_cmd \in {"cmd_setup_caddy", "interactive_config"}
                      THEN load_config ELSE config
         /\ UNCHANGED d_exit

(***************************************************************************)
(* deploy.py: main                                                         *)
(***************************************************************************)
choices == {"setup", "setup-caddy", "setup-env", "build", "push", "deploy",
            "migrate", "logs", "status", "restart", "ssh", "ssh-agent",
            "backup", "config"}

\* The handler table without its "backup" entry.
commands_without_backup ==
    [c \in choices \ {"backup"} |->
        CASE c = "setup-caddy" -> "cmd_setup_caddy"
          [] c = "setup-env"   -> "cmd_setup_env"
          [] c = "ssh-agent"   -> "cmd_ssh_agent"
          [] OTHER             -> "cmd_" \o c]

commands ==
    [c \in {"setup", "setup-caddy", "setup-env", "build", "push", "deploy",
            "migrate", "logs", "status", "restart", "ssh", "ssh-agent",
            "backup", "config"} |->
        CASE c = "setup"       -> "cmd_setup"
          [] c = "setup-caddy" -> "cmd_setup_caddy"
          [] c = "setup-env"   -> "cmd_setup_env"
          [] c = "build"       -> "cmd_build"
          [] c = "push"        -> "cmd_push"
          [] c = "deploy"      -> "cmd_deploy"
          [] c = "migrate"     -> "cmd_migrate"
          [] c = "logs"        -> "cmd_logs"
          [] c = "status"      -> "cmd_status"
          [] c = "restart"     -> "cmd_restart"
          [] c = "ssh"         -> "cmd_ssh"
          [] c = "ssh-agent"   -> "cmd_ssh_agent"
          [] c = "backup"      -> "cmd_backup"
          [] c = "config"      -> "cmd_config"]

\* First words the user may type after deploy.py.
ArgCommands == choices \cup {"rollback"}

ServiceLists == {<<>>, <<"api">>, <<"web", "api">>, <<"db">>}

ConfigArgs ==
    {<<>>} \cup { <<k>> : k \in AllKeys }
           \cup { <<k, v>> : k \in AllKeys, v \in Vals }

\* Positional arguments after the command.
ArgsOf(c) ==
    CASE c \in {"build", "push", "deploy", "restart"} -> ServiceLists
      [] c = "logs"   -> {<<>>, <<"api">>}
      [] c = "config" -> ConfigArgs
      [] OTHER        -> {<<>>}

\* Handlers that start with config = ensure_config(config).
EnsuresFirst == {"cmd_setup", "cmd_setup_caddy", "cmd_setup_env", "cmd_push",
                 "cmd_deploy", "cmd_migrate", "cmd_logs", "cmd_status",
                 "cmd_ssh", "cmd_backup", "cmd_restart", "interactive_logs"}

Entry(h) ==
    CASE h \in EnsuresFirst    -> "ensure"
      [] h = "cmd_build"       -> "build"
      [] h = "cmd_ssh_agent"   -> "agent"
      [] h = "cmd_config"      -> "config"
      [] h = "interactive_config" -> "cfgedit"

AfterEnsure(h) ==
    CASE h = "cmd_setup"        -> "setup:step"
      [] h = "cmd_setup_caddy"  -> "caddy:domain"
      [] h = "cmd_setup_env"    -> "env:upload"
      [] h = "cmd_push"         -> "push:inspect"
      [] h = "cmd_deploy"       -> "build"
      [] h = "cmd_migrate"      -> "migrate:rsync"
      [] h = "cmd_logs"         -> "logs:stream"
      [] h = "cmd_status"       -> "status:step"
      [] h = "cmd_ssh"          -> "ssh:exec"
      [] h = "cmd_backup"       -> "backup:dump"
      [] h = "cmd_restart"      -> "restart:run"
      [] h = "interactive_logs" -> "ilogs"

\* A fresh process: nothing logged, nothing called.
FreshRun ==
    /\ d_log' = <<>>
    /\ d_called' = <<>>
    /\ d_targets' = {}
    /\ d_tars' = {}
    /\ d_i' = 1
    /\ d_exit' = -1

\* main(), no arguments: the interactive menu; interactive_menu loads the
\* configuration once before its loop.
MainMenu ==
    /\ d_pc = "idle"
    /\ FreshRun
    /\ d_mode' = "menu"
    /\ d_arg' = ""
    /\ d_cmd' = "interactive_menu"
    /\ d_svcs' = <<>>
    /\ config' = load_config
    /\ d_pc' = "menu"
    /\ UNCHANGED <<fileExists, file>>
    /\ UNCHANGED nonDeployVars

\* main(), CLI mode: argparse rejects a command outside choices with status 2;
\* otherwise the configuration is loaded.
MainCli ==
    /\ d_pc = "idle"
    /\ \E c \in ArgCommands : \E a \in ArgsOf(c) :
         /\ FreshRun
         /\ d_mode' = "cli"
         /\ d_arg' = c
         /\ d_svcs' = a
         /\ d_cmd' = "main"
         /\ IF c \in choices
            THEN /\ config' = load_config
                 /\ d_pc' = "dispatch"
            ELSE \* parser.parse_args() prints usage and exits
                 /\ config' = config
                 /\ d_pc' = "argerror"
    /\ UNCHANGED <<fileExists, file>>
    /\ UNCHANGED nonDeployVars

ArgError ==
    /\ d_pc = "argerror"
    /\ Exit(2)
    /\ UNCHANGED <<cfgVars, d_mode, d_arg, d_cmd, d_svcs, d_i, d_log, d_called,
                   d_targets>>
    /\ UNCHANGED d_tars
    /\ UNCHANGED nonDeployVars

\* commands[args.command](args, config)
Dispatch ==
    /\ d_pc = "dispatch"
    /\ IF d_arg \in DOMAIN commands
       THEN /\ d_called' = Append(d_called, commands[d_arg])
            /\ d_cmd' = commands[d_arg]
            /\ d_pc' = Entry(commands[d_arg])
            /\ UNCHANGED d_exit
       ELSE \* KeyError: the interpreter ends with a traceback, status 1
            /\ Exit(1)
            /\ UNCHANGED <<d_called, d_cmd>>
    /\ UNCHANGED <<cfgVars, d_mode, d_arg, d_svcs, d_i, d_log, d_targets>>
    /\ UNCHANGED d_tars
    /\ UNCHANGED nonDeployVars

(***************************************************************************)
(* deploy.py: ensure_config                                                *)
(***************************************************************************)
\* Saves on every call, also when a host is already configured.
ensure_config_always_saves(next) ==
    IF config["server_host"] # ""
    THEN /\ d_pc' = next
         /\ save_config(config)
         /\ Log(<<Say("ok", "Config saved")>>)
         /\ UNCHANGED <<config, d_exit>>
    ELSE \E host \in Vals :
           IF host = ""
           THEN /\ Exit(1)
                /\ Log(<<Say("warn", "No server configured"),
                         Say("err", "Server host is required")>>)
                /\ UNCHANGED cfgVars
           ELSE /\ config' = Put(config, "server_host", host)
                /\ save_config(config')
                /\ d_pc' = next
                /\ Log(<<Say("warn", "No server configured"),
                         Say("ok", "Config saved")>>)
                /\ UNCHANGED d_exit

\* Takes the host typed at the prompt without writing it to the file.
ensure_config_without_save(next) ==
    IF config["server_host"] # ""
    THEN /\ d_pc' = next
         /\ UNCHANGED <<cfgVars, d_exit, d_log>>
    ELSE \E host \in Vals :
           IF host = ""
           THEN /\ Exit(1)
                /\ Log(<<Say("warn", "No server configured"),
                         Say("err", "Server host is required")>>)
                /\ UNCHANGED cfgVars
           ELSE /\ config' = Put(config, "server_host", host)
                /\ d_pc' = next
                /\ Log(<<Say("warn", "No server configured")>>)
                /\ UNCHANGED <<fileExists, file, d_exit>>

\* Reports the missing host and goes on with the handler.
ensure_config_goes_on_without_host(next) ==
    IF config["server_host"] # ""
    THEN /\ d_pc' = next
         /\ UNCHANGED <<cfgVars, d_exit, d_log>>
    ELSE \E host \in Vals :
           IF host = ""
           THEN /\ d_pc' = next
                /\ Log(<<Say("warn", "No server configured"),
                         Say("err", "Server host is required")>>)
                /\ UNCHANGED <<cfgVars, d_exit>>
           ELSE /\ config' = Put(config, "server_host", host)
                /\ save_config(config')
                /\ d_pc' = next
                /\ Log(<<Say("warn", "No server configured"),
                         Say("ok", "Config saved")>>)
                /\ UNCHANGED d_exit

\* ensure_config(config), then continue at `next`.  The dict is changed in
\* place, so the caller's config is the changed one.
ensure_config(next) ==
    IF config["server_host"] # ""
    THEN /\ d_pc' = next
         /\ UNCHANGED <<cfgVars, d_exit, d_log>>
    ELSE \E host \in Vals :
           IF host = ""
           THEN /\ Exit(1)
                /\ Log(<<Say("warn", "No server configured"),
                         Say("err", "Server host is required")>>)
                /\ UNCHANGED cfgVars
           ELSE /\ config' = Put(config, "server_host", host)
                /\ save_config(config')
                /\ d_pc' = next
                /\ Log(<<Say("warn", "No server configured"),
                         Say("ok", "Config saved")>>)
                /\ UNCHANGED d_exit

\* The first statement of a handler (and of menu choices '9' and 'b').
EnsureConfig ==
    /\ d_pc = "ensure"
    /\ ensure_config(AfterEnsure(d_cmd))
    /\ d_i' = 1
    /\ UNCHANGED <<d_mode, d_arg, d_cmd, d_svcs, d_called, d_targets>>
    /\ UNCHANGED d_tars
    /\ UNCHANGED nonDeployVars

(***************************************************************************)
(* deploy.py: cmd_config                                                   *)
(***************************************************************************)
\* Tests the key against the loaded record instead of DEFAULT_CONFIG.
cmd_config_any_loaded_key ==
    /\ IF Len(d_svcs) >= 2
       THEN LET key == d_svcs[1]
                value == d_svcs[2]
            IN IF key \in DOMAIN config
               THEN /\ config' = Put(config, key, value)
                    /\ save_config(config')
                    /\ Log(<<Say("ok", "Config saved"), Say("ok", "Set")>>)
               ELSE /\ Log(<<Say("err", "Unknown key")>>)
                    /\ UNCHANGED cfgVars
       ELSE /\ Log(<<>>)
            /\ UNCHANGED cfgVars

cmd_config ==
    /\ IF Len(d_svcs) >= 2
       THEN LET key == d_svcs[1]
                value == d_svcs[2]
            IN IF key \in DOMAIN DEFAULT_CONFIG
               THEN /\ config' = Put(config, key, value)
                    /\ save_config(config')
                    /\ Log(<<Say("ok", "Config saved"), Say("ok", "Set")>>)
               ELSE /\ Log(<<Say("err", "Unknown key")>>)
                    /\ UNCHANGED cfgVars
       ELSE IF Len(d_svcs) = 1
            THEN /\ IF d_svcs[1] \in DOMAIN config
                    THEN Log(<<Say("out", "key = value")>>)
                    ELSE Log(<<Say("err", "Unknown key")>>)
                 /\ UNCHANGED cfgVars
            ELSE /\ Log(<<Say("out", "Deploy Configuration")>>)
                 /\ UNCHANGED cfgVars

\* cmd_config is reached only from main: it returns and the process ends.
CmdConfig ==
    /\ d_pc = "config"
    /\ cmd_config
    /\ Exit(0)
    /\ UNCHANGED <<d_mode, d_arg, d_cmd, d_svcs, d_i, d_called, d_targets>>
    /\ UNCHANGED d_tars
    /\ UNCHANGED nonDeployVars

(***************************************************************************)
(* deploy.py: cmd_setup                                                    *)
(***************************************************************************)
StepNames == <<"Update system packages", "Install Docker",
               "Install Docker Compose plugin", "Create app directory",
               "Configure firewall", "Add 2GB swap">>

\* After step d_i of the provisioning loop.
SetupAdvance ==
    IF d_i < Len(StepNames)
    THEN d_i' = d_i + 1 /\ d_pc' = "setup:step"
    ELSE d_i' = 1 /\ d_pc' = "setup:env"

\* A failing step ends the command with status 1.
setup_step_aborts(rc) ==
    LET result == run_remote(rc, FALSE)
    IN IF result # NONE /\ result = 0
       THEN /\ Log(<<Ev("ssh", StepNames[d_i], result), Say("ok", StepNames[d_i])>>)
            /\ SetupAdvance
            /\ UNCHANGED d_exit
       ELSE /\ Log(<<Ev("ssh", StepNames[d_i], result), Say("err", StepNames[d_i])>>)
            /\ Exit(1)
            /\ UNCHANGED d_i

\* One iteration of `for i, (desc, cmd) in enumerate(steps, 1)`.
setup_step(rc) ==
    LET result == run_remote(rc, FALSE)
    IN /\ Log(<<Ev("ssh", StepNames[d_i], result),
                IF result # NONE /\ result = 0
                THEN Say("ok", StepNames[d_i])
                ELSE Say("warn", StepNames[d_i])>>)
       /\ SetupAdvance
       /\ UNCHANGED d_exit

SetupStep ==
    /\ d_pc = "setup:step"
    /\ \E rc \in Outcomes : setup_step(rc)
    /\ Target
    /\ UNCHANGED <<cfgVars, d_mode, d_arg, d_cmd, d_svcs, d_called>>
    /\ UNCHANGED d_tars
    /\ UNCHANGED nonDeployVars

\* "Push .env file if it exists", then the closing lines of cmd_setup.
SetupEnv ==
    /\ d_pc = "setup:env"
    /\ \E exists \in BOOLEAN :
         IF exists
         THEN \E rc1 \in Outcomes, rc2 \in Outcomes :
                /\ Log(<<Ev("scp", "scp .env", run(rc1, TRUE)),
                         Ev("ssh", "chmod .env", run_remote(rc2, TRUE)),
                         Say("ok", ".env file deployed"),
                         Say("ok", "Server provisioning complete!")>>)
                /\ Target
         ELSE /\ Log(<<Say("warn", "No .env.production.local found"),
                       Say("ok", "Server provisioning complete!")>>)
              /\ UNCHANGED d_targets
    /\ Return
    /\ UNCHANGED <<fileExists, file, d_mode, d_arg, d_cmd, d_svcs, d_i,
                   d_called>>
    /\ UNCHANGED d_tars
    /\ UNCHANGED nonDeployVars

(***************************************************************************)
(* deploy.py: cmd_setup_caddy, cmd_setup_env                               *)
(***************************************************************************)
CaddyNames == <<"install caddy", "write Caddyfile", "restart caddy">>

\* if not config.get('domain'): prompt for it and save it
CaddyDomain ==
    /\ d_pc = "caddy:domain"
    /\ IF config["domain"] # ""
       THEN /\ d_pc' = "caddy:run"
            /\ UNCHANGED <<cfgVars, d_exit, d_log>>
       ELSE \E domain \in Vals :
              IF domain = ""
              THEN /\ Log(<<Say("err", "Domain is required for Caddy setup")>>)
                   /\ Return
                   /\ UNCHANGED <<fileExists, file>>
              ELSE /\ config' = Put(config, "domain", domain)
                   /\ save_config(config')
                   /\ Log(<<Say("ok", "Config saved")>>)
                   /\ d_pc' = "caddy:run"
                   /\ UNCHANGED d_exit
    /\ d_i' = 1
    /\ UNCHANGED <<d_mode, d_arg, d_cmd, d_svcs, d_called, d_targets>>
    /\ UNCHANGED d_tars
    /\ UNCHANGED nonDeployVars

\* The three remote commands of cmd_setup_caddy (the first with check=False);
\* no result is looked at.
CaddyRun ==
    /\ d_pc = "caddy:run"
    /\ \E rc0 \in Outcomes :
         LET rc == run_remote(rc0, d_i # 1) IN
         IF d_i < Len(CaddyNames)
         THEN /\ Log(<<Ev("ssh", CaddyNames[d_i], rc)>>)
              /\ d_i' = d_i + 1
              /\ UNCHANGED <<d_pc, d_exit, config>>
         ELSE /\ Log(<<Ev("ssh", CaddyNames[d_i], rc),
                       Say("ok", "Caddy configured")>>)
              /\ d_i' = 1
              /\ Return
    /\ Target
    /\ UNCHANGED <<fileExists, file, d_mode, d_arg, d_cmd, d_svcs, d_called>>
    /\ UNCHANGED d_tars
    /\ UNCHANGED nonDeployVars

SetupEnvUpload ==
    /\ d_pc = "env:upload"
    /\ \E exists \in BOOLEAN :
         IF ~exists
         THEN /\ Log(<<Say("err", ".env.production.local not found")>>)
              /\ UNCHANGED d_targets
         ELSE /\ Target
              /\ \E rc1 \in Outcomes :
                   IF run(rc1, TRUE) # NONE
                   THEN \E rc2 \in Outcomes :
                          Log(<<Ev("scp", "scp .env", run(rc1, TRUE)),
                                Ev("ssh", "chmod .env", run_remote(rc2, TRUE)),
                                Say("ok", ".env file deployed and secured")>>)
                   ELSE Log(<<Ev("scp", "scp .env", run(rc1, TRUE)),
                              Say("err", "Failed to upload .env file")>>)
    /\ Return
    /\ UNCHANGED <<fileExists, file, d_mode, d_arg, d_cmd, d_svcs, d_i,
                   d_called>>
    /\ UNCHANGED d_tars
    /\ UNCHANGED nonDeployVars

(***************************************************************************)
(* deploy.py: cmd_build                                                    *)
(***************************************************************************)
\* getattr(args, 'services', None) or ['api', 'web']
Services == IF d_svcs = <<>> THEN <<"api", "web">> ELSE d_svcs

ImageServices == {"api", "web"}

\* After the last service cmd_build prints its closing line and returns: to
\* cmd_deploy, which goes on to cmd_push, or to main or the menu.
BuildAdvance(evs) ==
    IF d_i < Len(Services)
    THEN /\ Log(evs)
         /\ d_i' = d_i + 1
         /\ UNCHANGED <<d_pc, d_exit, config>>
    ELSE /\ Log(evs \o <<Say("ok", "All images built successfully")>>)
         /\ d_i' = 1
         /\ IF d_cmd = "cmd_deploy"
            THEN d_pc' = "push:ensure" /\ UNCHANGED <<d_exit, config>>
            ELSE Return

\* A failed build is reported and the loop goes on.
build_service_goes_on(rc) ==
    LET service == Services[d_i]
    IN IF service \in ImageServices
       THEN IF run(rc, TRUE) = NONE
            THEN BuildAdvance(<<Ev("local", "build " \o service, run(rc, TRUE)),
                                Say("err", "build failed " \o service)>>)
            ELSE BuildAdvance(<<Ev("local", "build " \o service, run(rc, TRUE)),
                                Say("ok", "image built " \o service)>>)
       ELSE BuildAdvance(<<Say("warn", "Unknown service")>>)

\* One iteration of `for service in services` in cmd_build.
build_service(rc) ==
    LET service == Services[d_i]
    IN IF service \in ImageServices
       THEN IF run(rc, TRUE) = NONE
            THEN /\ Log(<<Ev("local", "build " \o service, run(rc, TRUE)),
                          Say("err", "build failed " \o service)>>)
                 /\ Exit(1)
                 /\ UNCHANGED <<d_i, config>>
            ELSE BuildAdvance(<<Ev("local", "build " \o service, run(rc, TRUE)),
                                Say("ok", "image built " \o service)>>)
       ELSE BuildAdvance(<<Say("warn", "Unknown service")>>)

CmdBuild ==
    /\ d_pc = "build"
    /\ \E rc \in Outcomes : build_service(rc)
    /\ UNCHANGED <<fileExists, file, d_mode, d_arg, d_cmd, d_svcs, d_called,
                   d_targets>>
    /\ UNCHANGED d_tars
    /\ UNCHANGED nonDeployVars

(***************************************************************************)
(* deploy.py: cmd_push                                                     *)
(***************************************************************************)
\* cmd_deploy calls cmd_push, whose first statement is ensure_config again.
PushEnsure ==
    /\ d_pc = "push:ensure"
    /\ ensure_config("push:inspect")
    /\ d_i' = 1
    /\ UNCHANGED <<d_mode, d_arg, d_cmd, d_svcs, d_called, d_targets>>
    /\ UNCHANGED d_tars
    /\ UNCHANGED nonDeployVars

\* After the last service cmd_push prints its closing line and returns.
PushAdvance(evs) ==
    IF d_i < Len(Services)
    THEN /\ Log(evs)
         /\ d_i' = d_i + 1
         /\ d_pc' = "push:inspect"
         /\ UNCHANGED <<d_exit, config>>
    ELSE /\ Log(evs \o <<Say("ok", "All images pushed")>>)
         /\ d_i' = 1
         /\ IF d_cmd = "cmd_deploy"
            THEN d_pc' = "deploy:sync" /\ UNCHANGED <<d_exit, config>>
            ELSE Return

\* image_map.get(service), then `docker image inspect`
PushInspect ==
    /\ d_pc = "push:inspect"
    /\ LET service == Services[d_i]
       IN IF service \notin ImageServices
          THEN PushAdvance(<<Say("warn", "Unknown service")>>)
          ELSE \E rc \in Outcomes :
                 IF run(rc, FALSE) = NONE \/ run(rc, FALSE) # 0
                 THEN /\ Log(<<Ev("local", "inspect " \o service, run(rc, FALSE)),
                               Say("err", "image not found " \o service)>>)
                      /\ Exit(1)
                      /\ UNCHANGED <<d_i, config>>
                 ELSE /\ Log(<<Ev("local", "inspect " \o service, run(rc, FALSE))>>)
                      /\ d_pc' = "push:save"
                      /\ UNCHANGED <<d_i, d_exit, config>>
    /\ UNCHANGED <<fileExists, file, d_mode, d_arg, d_cmd, d_svcs, d_called,
                   d_targets>>
    /\ UNCHANGED d_tars
    /\ UNCHANGED nonDeployVars

\* sh -c 'docker save ... | gzip > tar_file': the shell creates the archive
\* before the pipeline runs, so it is on disk whenever sh was started.
PushSave ==
    /\ d_pc = "push:save"
    /\ LET service == Services[d_i]
       IN \E rc \in Outcomes :
            /\ IF run(rc, TRUE) = NONE
               THEN /\ Log(<<Ev("local", "save " \o service, run(rc, TRUE)),
                             Say("err", "Failed to save " \o service)>>)
                    /\ Exit(1)
               ELSE /\ Log(<<Ev("local", "save " \o service, run(rc, TRUE))>>)
                    /\ d_pc' = "push:upload"
                    /\ UNCHANGED d_exit
            /\ d_tars' = IF rc = NOTFOUND THEN d_tars ELSE d_tars \cup {service}
    /\ UNCHANGED <<cfgVars, d_mode, d_arg, d_cmd, d_svcs, d_i, d_called,
                   d_targets>>
    /\ UNCHANGED nonDeployVars

PushUpload ==
    /\ d_pc = "push:upload"
    /\ LET service == Services[d_i]
       IN \E rc \in Outcomes :
            IF run(rc, TRUE) = NONE
            THEN /\ Log(<<Ev("scp", "upload " \o service, run(rc, TRUE)),
                          Say("err", "Failed to upload " \o service)>>)
                 /\ Exit(1)
            ELSE /\ Log(<<Ev("scp", "upload " \o service, run(rc, TRUE))>>)
                 /\ d_pc' = "push:load"
                 /\ UNCHANGED d_exit
    /\ Target
    /\ UNCHANGED <<cfgVars, d_mode, d_arg, d_cmd, d_svcs, d_i, d_called>>
    /\ UNCHANGED d_tars
    /\ UNCHANGED nonDeployVars

\* os.remove(tar_path) runs also when the remote load has failed.
remote_load_removes_archive_anyway(rc) ==
    LET service == Services[d_i]
    IN /\ d_tars' = d_tars \ {service}
       /\ IF run_remote(rc, TRUE) = NONE
          THEN /\ Log(<<Ev("ssh", "load " \o service, run_remote(rc, TRUE)),
                        Say("rm", "archive " \o service),
                        Say("err", "Failed to load " \o service)>>)
               /\ Exit(1)
               /\ UNCHANGED <<d_i, config>>
          ELSE PushAdvance(<<Ev("ssh", "load " \o service, run_remote(rc, TRUE)),
                             Say("rm", "archive " \o service),
                             Say("ok", "pushed " \o service)>>)

\* docker load on the server; sys.exit(1) when it failed, else
\* os.remove(tar_path)
remote_load(rc) ==
    LET service == Services[d_i]
    IN IF run_remote(rc, TRUE) = NONE
       THEN /\ Log(<<Ev("ssh", "load " \o service, run_remote(rc, TRUE)),
                     Say("err", "Failed to load " \o service)>>)
            /\ Exit(1)
            /\ UNCHANGED <<d_i, config, d_tars>>
       ELSE /\ d_tars' = d_tars \ {service}
            /\ PushAdvance(<<Ev("ssh", "load " \o service, run_remote(rc, TRUE)),
                             Say("rm", "archive " \o service),
                             Say("ok", "pushed " \o service)>>)

PushLoad ==
    /\ d_pc = "push:load"
    /\ \E rc \in Outcomes : remote_load(rc)
    /\ Target
    /\ UNCHANGED <<fileExists, file, d_mode, d_arg, d_cmd, d_svcs, d_called>>
    /\ UNCHANGED nonDeployVars

(***************************************************************************)
(* deploy.py: cmd_deploy, after cmd_build and cmd_push have returned       *)
(***************************************************************************)
\* [3/4] Syncing configuration: the compose file and nginx.conf, when present
DeploySync ==
    /\ d_pc = "deploy:sync"
    /\ \E compose \in BOOLEAN, nginx \in BOOLEAN :
         LET evs1 == IF compose
                     THEN { <<Ev("scp", "scp compose", run(rc, TRUE)),
                              Say("ok", "Compose file synced")>> : rc \in Outcomes }
                     ELSE { <<Say("warn", "compose file not found")>> }
             evs2 == IF nginx
                     THEN { <<Ev("scp", "scp nginx", run(rc, FALSE))>> : rc \in Outcomes }
                     ELSE { <<>> }
         IN /\ \E e1 \in evs1, e2 \in evs2 : Log(e1 \o e2)
            /\ IF compose \/ nginx THEN Target ELSE UNCHANGED d_targets
    /\ d_pc' = "deploy:restart"
    /\ UNCHANGED <<cfgVars, d_mode, d_arg, d_cmd, d_svcs, d_i, d_exit,
                   d_called>>
    /\ UNCHANGED d_tars
    /\ UNCHANGED nonDeployVars

\* [4/4] Restarting services
DeployRestart ==
    /\ d_pc = "deploy:restart"
    /\ \E rc \in Outcomes :
         IF run(rc, TRUE) = NONE
         THEN /\ Log(<<Ev("ssh", "compose down up", run_remote(rc, TRUE)),
                       Say("err", "Failed to restart services")>>)
              /\ Exit(1)
         ELSE /\ Log(<<Ev("ssh", "compose down up", run_remote(rc, TRUE))>>)
              /\ d_pc' = "deploy:health"
              /\ UNCHANGED d_exit
    /\ Target
    /\ UNCHANGED <<cfgVars, d_mode, d_arg, d_cmd, d_svcs, d_i, d_called>>
    /\ UNCHANGED d_tars
    /\ UNCHANGED nonDeployVars

\* "Checking service health...", then the closing lines of cmd_deploy
DeployHealth ==
    /\ d_pc = "deploy:health"
    /\ \E rc \in Outcomes :
         Log(<<Ev("ssh", "compose ps", run_remote(rc, TRUE)),
               Say("ok", "Deployment complete!")>>)
    /\ Target
    /\ Return
    /\ UNCHANGED <<fileExists, file, d_mode, d_arg, d_cmd, d_svcs, d_i,
                   d_called>>
    /\ UNCHANGED d_tars
    /\ UNCHANGED nonDeployVars

(***************************************************************************)
(* deploy.py: cmd_migrate, cmd_logs, cmd_status, cmd_ssh, cmd_backup,      *)
(* cmd_restart, cmd_ssh_agent                                              *)
(***************************************************************************)
MigrateRsync ==
    /\ d_pc = "migrate:rsync"
    /\ \E rc \in Outcomes : Log(<<Ev("rsync", "rsync api source", run(rc, TRUE))>>)
    /\ Target
    /\ d_pc' = "migrate:run"
    /\ UNCHANGED <<cfgVars, d_mode, d_arg, d_cmd, d_svcs, d_i, d_exit,
                   d_called>>
    /\ UNCHANGED d_tars
    /\ UNCHANGED nonDeployVars

MigrateRun ==
    /\ d_pc = "migrate:run"
    /\ \E rc \in Outcomes :
         IF run(rc, TRUE) = NONE
         THEN /\ Log(<<Ev("ssh", "ef database update", run_remote(rc, TRUE)),
                       Say("err", "Migration failed")>>)
              /\ Exit(1)
              /\ UNCHANGED config
         ELSE /\ Log(<<Ev("ssh", "ef database update", run_remote(rc, TRUE)),
                       Say("ok", "Migrations applied successfully")>>)
              /\ Return
    /\ Target
    /\ UNCHANGED <<fileExists, file, d_mode, d_arg, d_cmd, d_svcs, d_i,
                   d_called>>
    /\ UNCHANGED d_tars
    /\ UNCHANGED nonDeployVars

\* subprocess.run(['ssh', '-t', ...]) without the run() wrapper: a missing ssh
\* program raises FileNotFoundError, which nothing catches.
Stream(name) ==
    \E rc \in Outcomes :
      /\ Log(<<Ev("ssh", name, rc)>>)
      /\ Target
      /\ IF rc = NOTFOUND
         THEN Exit(1) /\ UNCHANGED config
         ELSE Return

CmdLogs ==
    /\ d_pc = "logs:stream"
    /\ Stream("compose logs")
    /\ UNCHANGED <<fileExists, file, d_mode, d_arg, d_cmd, d_svcs, d_i,
                   d_called>>
    /\ UNCHANGED d_tars
    /\ UNCHANGED nonDeployVars

StatusNames == <<"compose ps", "df", "free", "docker system df",
                 "caddy is-active", "swapon">>

\* The six remote commands of cmd_status (the last two with check=False); no
\* result is looked at.
CmdStatus ==
    /\ d_pc = "status:step"
    /\ \E rc \in Outcomes :
         Log(<<Ev("ssh", StatusNames[d_i], run_remote(rc, d_i <= 4))>>)
    /\ Target
    /\ IF d_i < Len(StatusNames)
       THEN d_i' = d_i + 1 /\ UNCHANGED <<d_pc, d_exit, config>>
       ELSE d_i' = 1 /\ Return
    /\ UNCHANGED <<fileExists, file, d_mode, d_arg, d_cmd, d_svcs, d_called>>
    /\ UNCHANGED d_tars
    /\ UNCHANGED nonDeployVars

\* os.execvp('ssh', ...): the process becomes ssh and ends with its status; a
\* missing ssh program raises an uncaught OSError.
CmdSsh ==
    /\ d_pc = "ssh:exec"
    /\ \E rc \in Outcomes :
         /\ Log(<<Ev("ssh", "interactive shell", rc)>>)
         /\ Exit(IF rc = NOTFOUND THEN 1 ELSE rc)
    /\ Target
    /\ UNCHANGED <<cfgVars, d_mode, d_arg, d_cmd, d_svcs, d_i, d_called>>
    /\ UNCHANGED d_tars
    /\ UNCHANGED nonDeployVars

BackupDump ==
    /\ d_pc = "backup:dump"
    /\ \E rc \in Outcomes :
         IF run(rc, TRUE) = NONE
         THEN /\ Log(<<Ev("ssh", "pg_dump", run_remote(rc, TRUE)), Say("err", "Backup failed")>>)
              /\ Exit(1)
         ELSE /\ Log(<<Ev("ssh", "pg_dump", run_remote(rc, TRUE))>>)
              /\ d_pc' = "backup:download"
              /\ UNCHANGED d_exit
    /\ Target
    /\ UNCHANGED <<cfgVars, d_mode, d_arg, d_cmd, d_svcs, d_i, d_called>>
    /\ UNCHANGED d_tars
    /\ UNCHANGED nonDeployVars

BackupDownload ==
    /\ d_pc = "backup:download"
    /\ \E rc \in Outcomes :
         IF run(rc, TRUE) = NONE
         THEN /\ Log(<<Ev("scp", "download backup", run(rc, TRUE)),
                       Say("err", "Download failed")>>)
              /\ Exit(1)
              /\ UNCHANGED config
         ELSE \E rc2 \in Outcomes :
                /\ Log(<<Ev("scp", "download backup", run(rc, TRUE)),
                         Ev("ssh", "rm remote backup", run_remote(rc2, FALSE)),
                         Say("ok", "Backup saved")>>)
                /\ Return
    /\ Target
    /\ UNCHANGED <<fileExists, file, d_mode, d_arg, d_cmd, d_svcs, d_i,
                   d_called>>
    /\ UNCHANGED d_tars
    /\ UNCHANGED nonDeployVars

\* run_remote(restart), print_success, run_remote(ps): no result is looked at
cmd_restart(rc, rc2) ==
    Log(<<Ev("ssh", "compose restart", run_remote(rc, TRUE)),
          Say("ok", "Services restarted"),
          Ev("ssh", "compose ps", run_remote(rc2, TRUE))>>)

CmdRestart ==
    /\ d_pc = "restart:run"
    /\ \E rc \in Outcomes, rc2 \in Outcomes : cmd_restart(rc, rc2)
    /\ Target
    /\ Return
    /\ UNCHANGED <<fileExists, file, d_mode, d_arg, d_cmd, d_svcs, d_i,
                   d_called>>
    /\ UNCHANGED d_tars
    /\ UNCHANGED nonDeployVars

\* Local commands only (ssh-agent, ssh-add), started with subprocess.run: a
\* missing program raises FileNotFoundError, which nothing catches.  The
\* configuration is not used.
CmdSshAgent ==
    /\ d_pc = "agent"
    /\ \E running \in BOOLEAN, rc \in Outcomes :
         IF ~running /\ rc # 0
         THEN /\ Log(<<Ev("local", "ssh-agent -s", rc)>>
                     \o IF rc = NOTFOUND THEN <<>>
                        ELSE <<Say("err", "Failed to start ssh-agent")>>)
              /\ IF rc = NOTFOUND THEN Exit(1) /\ UNCHANGED config ELSE Return
         ELSE \E key \in BOOLEAN :
                IF ~key
                THEN Log(<<Say("err", "No SSH key found")>>) /\ Return
                ELSE \E rc2 \in Outcomes :
                       /\ Log(<<Ev("local", "ssh-add", rc2)>>
                              \o IF rc2 = 0
                                 THEN <<Say("ok", "Key added to ssh-agent")>>
                                 ELSE <<>>)
                       /\ IF rc2 = NOTFOUND
                          THEN Exit(1) /\ UNCHANGED config
                          ELSE Return
    /\ UNCHANGED <<fileExists, file, d_mode, d_arg, d_cmd, d_svcs, d_i,
                   d_called, d_targets>>
    /\ UNCHANGED d_tars
    /\ UNCHANGED nonDeployVars

(***************************************************************************)
(* deploy.py: the interactive menu                                         *)
(***************************************************************************)
MenuChoices == {"q", "1", "2", "3", "4", "5", "6", "7", "8", "9", "0",
                "a", "b", "s", "c", "x"}

MenuHandler(ch) ==
    CASE ch = "1" -> "cmd_setup"
      [] ch = "2" -> "cmd_setup_caddy"
      [] ch = "3" -> "cmd_setup_env"
      [] ch = "4" -> "cmd_deploy"
      [] ch = "5" -> "cmd_build"
      [] ch = "6" -> "cmd_push"
      [] ch = "7" -> "cmd_migrate"
      [] ch = "8" -> "cmd_status"
      [] ch = "9" -> "interactive_logs"
      [] ch = "0" -> "cmd_restart"
      [] ch = "a" -> "cmd_ssh_agent"
      [] ch = "b" -> "cmd_backup"
      [] ch = "s" -> "cmd_ssh"
      [] ch = "c" -> "interactive_config"
      [] OTHER    -> "none"

\* Choices that ask select_service() first.
AsksService == {"4", "5", "6", "0"}

\* select_service(): a list of services, or None (here the empty list)
select_service == {<<"api">>, <<"web">>, <<"api", "web">>, <<>>}

\* One pass of the `while True` loop of interactive_menu, up to the call of
\* the chosen handler.
MenuChoice ==
    /\ d_pc = "menu"
    /\ \E ch \in MenuChoices :
         IF ch = "q"
         THEN /\ Exit(0)
              /\ UNCHANGED <<d_cmd, d_svcs, d_log, d_i>>
         ELSE /\ d_log' = <<>>
              /\ d_i' = 1
              /\ UNCHANGED d_exit
              /\ IF MenuHandler(ch) = "none"
                 THEN UNCHANGED <<d_pc, d_cmd, d_svcs>>
                 ELSE \E svc \in (IF ch \in AsksService THEN select_service
                                  ELSE {<<>>}) :
                        IF ch \in AsksService /\ svc = <<>>
                        THEN UNCHANGED <<d_pc, d_cmd, d_svcs>>
                        ELSE /\ d_cmd' = MenuHandler(ch)
                             /\ d_svcs' = svc
                             /\ d_pc' = Entry(MenuHandler(ch))
    /\ UNCHANGED <<cfgVars, d_mode, d_arg, d_called, d_targets>>
    /\ UNCHANGED d_tars
    /\ UNCHANGED nonDeployVars

\* pause(), then the top of the menu loop: clear_screen()
Pause ==
    /\ d_pc = "pause"
    /\ d_pc' = "menu"
    /\ d_log' = <<>>
    /\ d_cmd' = "interactive_menu"
    /\ d_svcs' = <<>>
    /\ d_i' = 1
    /\ UNCHANGED <<cfgVars, d_mode, d_arg, d_exit, d_called, d_targets>>
    /\ UNCHANGED d_tars
    /\ UNCHANGED nonDeployVars

\* interactive_logs(config), after the menu's ensure_config
InteractiveLogs ==
    /\ d_pc = "ilogs"
    /\ \E choice \in {"1", "2", "6", "b", "x"} :
         IF choice \in {"b", "x"}
         THEN /\ Return
              /\ UNCHANGED <<d_log, d_targets>>
         ELSE Stream(IF choice = "6" THEN "journalctl caddy" ELSE "compose logs")
    /\ UNCHANGED <<fileExists, file, d_mode, d_arg, d_cmd, d_svcs, d_i,
                   d_called>>
    /\ UNCHANGED d_tars
    /\ UNCHANGED nonDeployVars

EditChoices == {"b", "x", "0", "1", "2", "3", "4", "5", "6"}

\* int(choice); -1 stands for ValueError
ChoiceInt(ch) ==
    CASE ch = "0" -> 0 [] ch = "1" -> 1 [] ch = "2" -> 2 [] ch = "3" -> 3
      [] ch = "4" -> 4 [] ch = "5" -> 5 [] ch = "6" -> 6 [] OTHER -> -1

\* One pass of the `while True` loop of interactive_config; on 'b' the menu
\* reloads the configuration.
InteractiveConfig ==
    /\ d_pc = "cfgedit"
    /\ \E choice \in EditChoices :
         IF choice = "b"
         THEN /\ Return
              /\ UNCHANGED <<fileExists, file, d_log>>
         ELSE LET idx == ChoiceInt(choice) - 1
              IN IF ChoiceInt(choice) # -1 /\ 0 <= idx /\ idx < Len(KeyOrder)
                 THEN \E new_val \in Vals :
                        IF new_val # ""
                        THEN /\ config' = Put(config, KeyOrder[idx + 1], new_val)
                             /\ save_config(config')
                             /\ d_log' = <<Say("ok", "Config saved")>>
                             /\ UNCHANGED <<d_pc, d_exit>>
                        ELSE UNCHANGED <<cfgVars, d_pc, d_exit, d_log>>
                 ELSE UNCHANGED <<cfgVars, d_pc, d_exit, d_log>>
    /\ UNCHANGED <<d_mode, d_arg, d_cmd, d_svcs, d_i, d_called, d_targets>>
    /\ UNCHANGED d_tars
    /\ UNCHANGED nonDeployVars

(***************************************************************************)
(* deploy.py: specification                                                *)
(***************************************************************************)
DeployIdle ==
    /\ config = DEFAULT_CONFIG
    /\ d_pc = "idle"
    /\ d_mode = "none"
    /\ d_arg = ""
    /\ d_cmd = "none"
    /\ d_svcs = <<>>
    /\ d_i = 1
    /\ d_exit = -1
    /\ d_log = <<>>
    /\ d_called = <<>>
    /\ d_targets = {}
    /\ d_tars = {}

\* Before the first invocation: .deploy.json is absent or holds any object.
DeployInit ==
    /\ fileExists \in BOOLEAN
    /\ file \in (IF fileExists THEN InitFiles ELSE {EmptyRec})
    /\ DeployIdle

\* display_dashboard has not returned anything yet.
NoDash == [has_build |-> FALSE, rebuild_needed |-> FALSE, devices |-> <<>>]

\* The mobile tool is not running and has never run.
MobileIdle ==
    /\ m_pc = "idle"
    /\ shellEnv = FALSE
    /\ procEnv = FALSE
    /\ sdkFound = FALSE
    /\ profileBlocks = 0
    /\ bundler = <<>>
    /\ m_wait = 0
    /\ m_ret = "none"
    /\ m_runs = 0
    /\ m_dash = NoDash
    /\ m_act = "none"
    /\ m_target = "none"
    /\ m_log = <<>>
    /\ m_how = "none"

\* A background child that has not been spawned.
NoKid == [st |-> "none", tracked |-> FALSE, signalled |-> FALSE]

\* The run script is not running.
RunIdle ==
    /\ r_pc = "idle"
    /\ r_local = FALSE
    /\ r_cmd = ""
    /\ r_called = <<>>
    /\ r_log = <<>>
    /\ r_kids = [k \in {"api", "web"} |-> NoKid]
    /\ r_exit = -1

\* The two wait loops of the setup script.
Waits == {"pg", "api"}

\* The setup script is not running.
SetupIdle ==
    /\ s_pc = "idle"
    /\ s_mode = "none"
    /\ s_log = <<>>
    /\ s_exit = -1
    /\ s_t = 0
    /\ s_probes = 0
    /\ s_hit = [w \in Waits |-> FALSE]
    /\ s_ret = [w \in Waits |-> "none"]

\* The desktop launcher is not running.
DesktopIdle ==
    /\ sd_pc = "idle"
    /\ sd_cmd = ""
    /\ sd_log = <<>>
    /\ sd_ret = [f \in {"build", "package"} |-> "none"]
    /\ sd_exit = -1

\* check_rebuild_needed is not being called; no artifact, no source file.
RebuildIdle ==
    /\ rb_pc = "idle"
    /\ rb_build = NONE
    /\ rb_files = {}
    /\ rb_zone = NONE
    /\ rb_out = "none"

\* The process has ended; the operator is back at the shell prompt.  Only
\* .deploy.json outlives the process.
ShellPrompt ==
    /\ d_pc = "exited"
    /\ d_pc' = "idle"
    /\ config' = DEFAULT_CONFIG
    /\ d_mode' = "none"
    /\ d_arg' = ""
    /\ d_cmd' = "none"
    /\ d_svcs' = <<>>
    /\ d_i' = 1
    /\ d_exit' = -1
    /\ d_log' = <<>>
    /\ d_called' = <<>>
    /\ d_targets' = {}
    /\ d_tars' = {}
    /\ UNCHANGED <<fileExists, file>>
    /\ UNCHANGED nonDeployVars

DeployNext ==
    \/ MainMenu
    \/ MainCli
    \/ ArgError
    \/ ShellPrompt
    \/ Dispatch
    \/ EnsureConfig
    \/ CmdConfig
    \/ SetupStep
    \/ SetupEnv
    \/ CaddyDomain
    \/ CaddyRun
    \/ SetupEnvUpload
    \/ CmdBuild
    \/ PushEnsure
    \/ PushInspect
    \/ PushSave
    \/ PushUpload
    \/ PushLoad
    \/ DeploySync
    \/ DeployRestart
    \/ DeployHealth
    \/ MigrateRsync
    \/ MigrateRun
    \/ CmdLogs
    \/ CmdStatus
    \/ CmdSsh
    \/ BackupDump
    \/ BackupDownload
    \/ CmdRestart
    \/ CmdSshAgent
    \/ MenuChoice
    \/ Pause
    \/ InteractiveLogs
    \/ InteractiveConfig

\* deploy.py alone: the mobile tool stays idle.
InitDeploy ==
    /\ DeployInit /\ MobileIdle /\ RunIdle /\ SetupIdle /\ DesktopIdle
    /\ RebuildIdle

SpecDeploy == InitDeploy /\ [][DeployNext]_vars

(***************************************************************************)
(* mobile_setup.py: the Metro bundler                                      *)
(*                                                                         *)
(* A bundler process is "starting" from Popen until it listens on port     *)
(* 8081, "listening" while it holds the port, and "dead" once it has       *)
(* ended.  It is started in a session of its own (start_new_session=True)  *)
(* and outlives the tool.  When it binds the port, and whether it ends,    *)
(* is the bundler's own business: BundlerListens and BundlerEnds.          *)
(***************************************************************************)
METRO_WAIT == 15

MobileEv(kind, name, rc) == [k |-> kind, n |-> name, rc |-> rc]

Alive(b) == { p \in DOMAIN b : b[p] \in {"starting", "listening"} }

\* is_metro_running(): connect_ex(('localhost', 8081)) == 0
is_metro_running == \E p \in DOMAIN bundler : bundler[p] = "listening"

\* start_metro_background() up to the wait loop: return when the port answers,
\* otherwise Popen(['npx', 'react-native', 'start']).
start_metro_background(ret) ==
    IF is_metro_running
    THEN /\ m_pc' = ret
         /\ UNCHANGED <<bundler, m_wait, m_ret, m_log>>
    ELSE /\ Len(bundler) < MaxBundlers
         /\ bundler' = Append(bundler, "starting")
         /\ m_log' = Append(m_log, MobileEv("spawn", "metro", 0))
         /\ m_wait' = 0
         /\ m_ret' = ret
         /\ m_pc' = "metro:wait"

\* One iteration of `for i in range(15)`: sleep(1), then probe the port; after
\* the last iteration "Metro may still be starting..." and return.
MetroWait ==
    /\ m_pc = "metro:wait"
    /\ IF is_metro_running \/ m_wait + 1 >= METRO_WAIT
       THEN /\ m_pc' = m_ret
            /\ m_wait' = 0
            /\ m_ret' = "none"
       ELSE /\ m_wait' = m_wait + 1
            /\ UNCHANGED <<m_pc, m_ret>>
    /\ UNCHANGED <<shellEnv, procEnv, sdkFound, profileBlocks, bundler, m_runs>>
    /\ UNCHANGED mobileMenuVars
    /\ UNCHANGED nonMobileVars

\* stop_metro(): pkill -f 'react-native start', then kill -9 of whatever holds
\* the port.  pkill may be missing (the exception is swallowed).
stop_metro(pkill) ==
    bundler' = [p \in DOMAIN bundler |->
                  IF bundler[p] = "listening" \/ (pkill /\ bundler[p] = "starting")
                  THEN "dead" ELSE bundler[p]]

\* A starting bundler binds port 8081, which it can only when the port is free.
BundlerListens ==
    /\ \E p \in DOMAIN bundler :
         /\ bundler[p] = "starting"
         /\ ~is_metro_running
         /\ bundler' = [bundler EXCEPT ![p] = "listening"]
    /\ UNCHANGED <<m_pc, shellEnv, procEnv, sdkFound, profileBlocks, m_wait,
                   m_ret, m_runs>>
    /\ UNCHANGED mobileMenuVars
    /\ UNCHANGED nonMobileVars

\* A bundler ends by itself (a crash, a port it cannot bind).
BundlerEnds ==
    /\ \E p \in Alive(bundler) : bundler' = [bundler EXCEPT ![p] = "dead"]
    /\ UNCHANGED <<m_pc, shellEnv, procEnv, sdkFound, profileBlocks, m_wait,
                   m_ret, m_runs>>
    /\ UNCHANGED mobileMenuVars
    /\ UNCHANGED nonMobileVars

(***************************************************************************)
(* mobile_setup.py: main, the dashboard menu                               *)
(***************************************************************************)
\* python mobile_setup.py: the process inherits the shell's environment.
MobileLaunch ==
    /\ m_pc = "idle"
    /\ m_runs < MaxMobileRuns
    /\ m_runs' = m_runs + 1
    /\ procEnv' = shellEnv
    /\ m_pc' = "dash"
    /\ m_how' = "none"
    /\ UNCHANGED <<shellEnv, sdkFound, profileBlocks, bundler, m_wait, m_ret>>
    /\ UNCHANGED <<m_dash, m_act, m_target, m_log>>
    /\ UNCHANGED nonMobileVars

\* The operator opens a new shell (or sources the profile): the export block,
\* when the profile holds one, sets ANDROID_HOME.
SourceProfile ==
    /\ m_pc = "idle"
    /\ profileBlocks > 0
    /\ ~shellEnv
    /\ shellEnv' = TRUE
    /\ UNCHANGED <<m_pc, procEnv, sdkFound, profileBlocks, bundler, m_wait,
                   m_ret, m_runs>>
    /\ UNCHANGED mobileMenuVars
    /\ UNCHANGED nonMobileVars

\* What `adb devices -l` can list: two devices, each in some state.
DeviceLists ==
    { <<>>,
      <<[id |-> "A", status |-> "unauthorized"]>>,
      <<[id |-> "A", status |-> "device"]>>,
      <<[id |-> "A", status |-> "offline"], [id |-> "B", status |-> "device"]>>,
      <<[id |-> "A", status |-> "device"], [id |-> "B", status |-> "device"]>> }

\* display_dashboard: `[(d, s, m) for d, s, m in devices if s == 'device']`
authorized_devices_not_offline(devices) ==
    SelectSeq(devices, LAMBDA d : d.status # "offline")

authorized_devices(devices) ==
    SelectSeq(devices, LAMBDA d : d.status = "device")

\* display_dashboard: `has_device = len(authorized_devices) > 0`
has_device == Len(authorized_devices(m_dash.devices)) > 0

\* display_dashboard, with the native project present: the screen is
\* cleared, the build status, the rebuild check and the device list are
\* read, and the tool waits at the prompt.  Without a debug build
\* check_rebuild_needed says True; with one it says what the modification
\* times give.
DisplayDashboard ==
    /\ m_pc = "dash"
    /\ \E has_build \in BOOLEAN, source_newer \in BOOLEAN,
          devices \in DeviceLists :
          m_dash' = [has_build |-> has_build,
                     rebuild_needed |-> ~has_build \/ source_newer,
                     devices |-> devices]
    /\ m_log' = <<>>
    /\ m_act' = "none"
    /\ m_target' = "none"
    /\ m_pc' = "menu"
    /\ UNCHANGED <<shellEnv, procEnv, sdkFound, profileBlocks, bundler, m_wait,
                   m_ret, m_runs, m_how>>
    /\ UNCHANGED nonMobileVars

\* choice 'm': stop Metro when the port answers, start it otherwise
MenuMetro ==
    /\ m_pc = "menu"
    /\ m_act' = "m"
    /\ IF is_metro_running
       THEN /\ \E pkill \in BOOLEAN : stop_metro(pkill)
            /\ m_pc' = "dash"
            /\ UNCHANGED <<m_wait, m_ret, m_log>>
       ELSE start_metro_background("dash")
    /\ UNCHANGED <<shellEnv, procEnv, sdkFound, profileBlocks, m_runs>>
    /\ UNCHANGED <<m_dash, m_target, m_how>>
    /\ UNCHANGED nonMobileVars

\* choices '1' and '2': smart_deploy / full_rebuild_deploy when the dashboard
\* found an authorized device, up to "Ensure Metro is running": the device is
\* the only one, or the one the operator picks; without a device only a
\* warning.
MenuDeploy ==
    /\ m_pc = "menu"
    /\ \E choice \in {"1", "2"} : m_act' = choice
    /\ IF has_device
       THEN /\ \E d \in Range(authorized_devices(m_dash.devices)) :
                  m_target' = d.id
            /\ IF ~is_metro_running
               THEN start_metro_background("deploy")
               ELSE /\ m_pc' = "deploy"
                    /\ UNCHANGED <<bundler, m_wait, m_ret, m_log>>
       ELSE /\ m_log' = <<MobileEv("say", "Connect a device first.", 0)>>
            /\ m_pc' = "dash"
            /\ UNCHANGED <<bundler, m_wait, m_ret, m_target>>
    /\ UNCHANGED <<shellEnv, procEnv, sdkFound, profileBlocks, m_runs>>
    /\ UNCHANGED <<m_dash, m_how>>
    /\ UNCHANGED nonMobileVars

\* smart_deploy: `if not has_build or rebuild_needed`
smart_deploy_builds_without_build(has_build, rebuild_needed) == ~has_build

smart_deploy_builds(has_build, rebuild_needed) ==
    ~has_build \/ rebuild_needed

\* smart_deploy from the port forwarding on: run-android, or install of the
\* existing artifact and, when the install exited zero, launch of the app;
\* then the verdict.  Back to the dashboard after the pause.
SmartDeployRun ==
    /\ m_pc = "deploy"
    /\ m_act = "1"
    /\ \E forward \in {0, 1}, rc \in {0, 1}, launch \in {0, 1} :
          LET step == IF smart_deploy_builds(m_dash.has_build,
                                             m_dash.rebuild_needed)
                      THEN <<MobileEv("build", m_target, rc)>>
                      ELSE <<MobileEv("install", m_target, rc)>>
                           \o (IF rc = 0
                               THEN <<MobileEv("launch", m_target, launch)>>
                               ELSE <<>>)
              return_code == IF rc = 0 THEN 0 ELSE 1
          IN  m_log' = m_log
                       \o <<MobileEv("forward", m_target, forward)>>
                       \o step
                       \o <<MobileEv("say", IF return_code = 0
                                            THEN "Deployed successfully!"
                                            ELSE "Deployment failed", 0)>>
    /\ m_pc' = "dash"
    /\ UNCHANGED <<shellEnv, procEnv, sdkFound, profileBlocks, bundler, m_wait,
                   m_ret, m_runs>>
    /\ UNCHANGED <<m_dash, m_act, m_target, m_how>>
    /\ UNCHANGED nonMobileVars

\* full_rebuild_deploy from the port forwarding on: gradlew clean when the
\* wrapper exists, run-android, the verdict.
FullRebuildRun ==
    /\ m_pc = "deploy"
    /\ m_act = "2"
    /\ \E forward \in {0, 1}, gradlew \in BOOLEAN, rc \in {0, 1} :
          m_log' = m_log
                   \o <<MobileEv("forward", m_target, forward)>>
                   \o (IF gradlew THEN <<MobileEv("clean", m_target, 0)>>
                       ELSE <<>>)
                   \o <<MobileEv("build", m_target, rc),
                        MobileEv("say", IF rc = 0
                                        THEN "Full rebuild complete!"
                                        ELSE "Build failed", 0)>>
    /\ m_pc' = "dash"
    /\ UNCHANGED <<shellEnv, procEnv, sdkFound, profileBlocks, bundler, m_wait,
                   m_ret, m_runs>>
    /\ UNCHANGED <<m_dash, m_act, m_target, m_how>>
    /\ UNCHANGED nonMobileVars

\* get_android_home(): the environment variable, else the common SDK paths
get_android_home == procEnv \/ sdkFound

\* check_prerequisites(): the two entries the wizard's ANDROID_HOME step reads
check_prerequisites ==
    [android_sdk |-> get_android_home,
     android_home_configured |-> get_android_home /\ procEnv]

\* setup_android_home(): append the export block to the profile file and set
\* os.environ["ANDROID_HOME"]; a failing write changes neither.
setup_android_home(written) ==
    IF get_android_home /\ written
    THEN /\ profileBlocks' = profileBlocks + 1
         /\ procEnv' = TRUE
    ELSE UNCHANGED <<profileBlocks, procEnv>>

\* choice 's': setup_wizard(), its "Configure ANDROID_HOME if needed" step
SetupWizard ==
    /\ m_pc = "menu"
    /\ m_act' = "s"
    /\ \E ready \in BOOLEAN, answer \in BOOLEAN, written \in BOOLEAN :
         LET checks == check_prerequisites
         IN IF ready /\ checks.android_sdk /\ ~checks.android_home_configured
               /\ answer
            THEN setup_android_home(written)
            ELSE UNCHANGED <<profileBlocks, procEnv>>
    /\ m_pc' = "dash"
    /\ UNCHANGED <<shellEnv, sdkFound, bundler, m_wait, m_ret, m_runs>>
    /\ UNCHANGED <<m_dash, m_target, m_log, m_how>>
    /\ UNCHANGED nonMobileVars

\* The process ends: what it held in memory is gone.
MobileEnds(how) ==
    /\ m_pc' = "idle"
    /\ procEnv' = FALSE
    /\ m_wait' = 0
    /\ m_ret' = "none"
    /\ m_dash' = NoDash
    /\ m_act' = "none"
    /\ m_target' = "none"
    /\ m_log' = <<>>
    /\ m_how' = how

\* choice 'q': offer to stop Metro when the port answers, then leave
MenuQuit ==
    /\ m_pc = "menu"
    /\ IF is_metro_running
       THEN \E stop \in BOOLEAN, pkill \in BOOLEAN :
              IF stop THEN stop_metro(pkill) ELSE UNCHANGED bundler
       ELSE UNCHANGED bundler
    /\ MobileEnds("quit")
    /\ UNCHANGED <<shellEnv, sdkFound, profileBlocks, m_runs>>
    /\ UNCHANGED nonMobileVars

\* Ctrl+C while the tool runs (at the prompt, in a sleep, in the wait for
\* Metro): KeyboardInterrupt reaches the handler around main(), which prints
\* "Goodbye!" and calls sys.exit(0).
MobileInterrupt ==
    /\ m_pc # "idle"
    /\ MobileEnds("interrupt")
    /\ UNCHANGED <<shellEnv, sdkFound, profileBlocks, bundler, m_runs>>
    /\ UNCHANGED nonMobileVars

(***************************************************************************)
(* mobile_setup.py: specification                                          *)
(***************************************************************************)
\* Before the first launch: ANDROID_HOME may or may not be exported, an SDK
\* may or may not be installed; the profile holds no export block yet.
MobileInit ==
    /\ m_pc = "idle"
    /\ shellEnv \in BOOLEAN
    /\ procEnv = FALSE
    /\ sdkFound \in BOOLEAN
    /\ profileBlocks = 0
    /\ bundler = <<>>
    /\ m_wait = 0
    /\ m_ret = "none"
    /\ m_runs = 0
    /\ m_dash = NoDash
    /\ m_act = "none"
    /\ m_target = "none"
    /\ m_log = <<>>
    /\ m_how = "none"

\* The deploy CLI is not running; .deploy.json is absent.
DeployAbsent ==
    /\ fileExists = FALSE
    /\ file = EmptyRec
    /\ DeployIdle

MobileNext ==
    \/ MobileLaunch
    \/ SourceProfile
    \/ DisplayDashboard
    \/ MenuMetro
    \/ MenuDeploy
    \/ SmartDeployRun
    \/ FullRebuildRun
    \/ MetroWait
    \/ BundlerListens
    \/ BundlerEnds
    \/ SetupWizard
    \/ MenuQuit
    \/ MobileInterrupt

\* mobile_setup.py alone: the deploy CLI stays idle.
InitMobile ==
    /\ MobileInit /\ DeployAbsent /\ RunIdle /\ SetupIdle /\ DesktopIdle
    /\ RebuildIdle

SpecMobile == InitMobile /\ [][MobileNext]_vars

(***************************************************************************)
(* Properties of deploy.py: the configuration record                       *)
(***************************************************************************)
\* What load_config has to return for the file as it is now.
MergedOverDefaults(k) ==
    IF fileExists /\ k \in DOMAIN file THEN file[k] ELSE DEFAULT_CONFIG[k]

\* C1: the record a process holds after loading is the stored record merged
\* over the defaults: for every key of DEFAULT_CONFIG the stored value when
\* the file holds that key, the default otherwise; without a file the record
\* equals DEFAULT_CONFIG exactly.
C1_LoadMergesOverDefaults ==
    d_pc \in {"dispatch", "menu"} =>
        /\ \A k \in KnownKeys : config[k] = MergedOverDefaults(k)
        /\ (~fileExists => config = DEFAULT_CONFIG)

\* A process has just loaded a file that holds a host and no server_path.
C1_Witness ==
    /\ d_pc = "dispatch"
    /\ fileExists
    /\ "server_host" \in DOMAIN file
    /\ file["server_host"] = "h1"
    /\ "server_path" \notin DOMAIN file
    /\ config["server_host"] = "h1"
    /\ config["server_path"] = "/opt/teboraw"

\* C2: `config <key> <value>` with a key outside DEFAULT_CONFIG prints an
\* error and leaves the record and the file as they were; with a known key it
\* sets that key, and no other, and writes the record to the file.
C2_ConfigSetKnownKeysOnly ==
    [][(d_pc = "config" /\ Len(d_svcs) >= 2) =>
         IF d_svcs[1] \in KnownKeys
         THEN /\ DOMAIN config' = DOMAIN config
              /\ config'[d_svcs[1]] = d_svcs[2]
              /\ \A k \in DOMAIN config \ {d_svcs[1]} : config'[k] = config[k]
              /\ fileExists'
              /\ file' = config'
         ELSE /\ UNCHANGED cfgVars
              /\ d_log' = Append(d_log, Say("err", "Unknown key"))]_vars

\* `config extra h1` was refused although the loaded record holds "extra".
C2_Witness ==
    /\ d_pc = "exited"
    /\ d_cmd = "cmd_config"
    /\ d_svcs = <<"extra", "">>
    /\ d_log = <<Say("err", "Unknown key")>>
    /\ "extra" \in DOMAIN config
    /\ config["extra"] = "h1"
    /\ file["extra"] = "h1"

\* C3: every record the CLI has loaded or written has exactly the keys of
\* DEFAULT_CONFIG, whatever keys the file held before.
C3_ExactlyKnownKeys ==
    d_pc # "idle" => DOMAIN config = KnownKeys

\* C4 as stated: the file changes only while the config command or the
\* configuration editor runs.
C4_OnlyConfigCommandWrites ==
    [][(file' # file \/ fileExists' # fileExists) =>
         d_cmd \in {"cmd_config", "interactive_config"}]_vars

\* C4: the file changes only on a value the user has just typed: in the config
\* command or the configuration editor, at ensure_config's host prompt (no host
\* configured), or at setup-caddy's domain prompt (no domain configured); what
\* is written is the record in memory.  With host and domain configured every
\* command other than config leaves the file as it was.
C4_WritesOnlyOnUserInput ==
    [][(file' # file \/ fileExists' # fileExists) =>
         /\ fileExists'
         /\ file' = config'
         /\ \/ d_cmd \in {"cmd_config", "interactive_config"}
            \/ /\ d_pc = "ensure"
               /\ config["server_host"] = ""
               /\ config'["server_host"] # ""
               /\ \A k \in DOMAIN config \ {"server_host"} : config'[k] = config[k]
            \/ /\ d_pc = "caddy:domain"
               /\ config["domain"] = ""
               /\ config'["domain"] # ""
               /\ \A k \in DOMAIN config \ {"domain"} : config'[k] = config[k]]_vars

\* `status` asked for the host and created the file.
C4_Witness ==
    /\ d_cmd = "cmd_status"
    /\ d_pc = "status:step"
    /\ d_log = <<Say("warn", "No server configured"), Say("ok", "Config saved")>>
    /\ fileExists
    /\ file = config
    /\ file["server_host"] = "h1"

(***************************************************************************)
(* Properties of deploy.py: dispatch                                       *)
(***************************************************************************)
\* C5: the accepted subcommands are the keys of the handler table; a CLI
\* invocation calls the handler of its subcommand, once, and no other; an
\* invocation without arguments calls no handler from main and is in the menu;
\* a rejected command line calls none and ends with status 2.
C5_DispatchCallsOneHandler ==
    /\ DOMAIN commands = choices
    /\ (d_mode = "cli" /\ d_pc \in {"dispatch", "argerror"} => d_called = <<>>)
    /\ (d_mode = "cli" /\ d_pc \notin {"dispatch", "argerror"} /\ d_arg \in choices =>
            /\ d_called = <<commands[d_arg]>>
            /\ d_cmd = commands[d_arg])
    /\ (d_mode = "cli" /\ d_arg \notin choices =>
            /\ d_called = <<>>
            /\ (d_pc = "exited" => d_exit = 2))
    /\ (d_mode = "menu" => d_called = <<>> /\ d_arg = "")

\* `deploy.py backup` has come to the download step of cmd_backup.
C5_Witness ==
    /\ d_mode = "cli"
    /\ d_arg = "backup"
    /\ d_pc = "backup:download"
    /\ d_called = <<"cmd_backup">>

(***************************************************************************)
(* Properties of deploy.py: what the log of a handler run may look like    *)
(***************************************************************************)
\* The image services cmd_deploy was asked for.
Selected == Range(Services) \cap ImageServices

BuildRuns == { "build " \o s : s \in ImageServices }
PushRuns ==
    { op \o s : op \in {"inspect ", "save ", "upload ", "load "}, s \in ImageServices }
SyncRuns == {"scp compose", "scp nginx"}

\* The stage of cmd_deploy a subprocess belongs to.
Stage(e) ==
    CASE e.n \in BuildRuns -> 1
      [] e.n \in PushRuns -> 2
      [] e.n \in SyncRuns -> 3
      [] e.n = "compose down up" -> 4
      [] OTHER -> 5

RunsAt == { i \in DOMAIN d_log : IsRun(d_log[i]) }

\* C6: deploy runs build, push, sync and restart in that order; the restart
\* command is issued only after every selected image was built and pushed with
\* every subprocess of both stages ending with status 0; a failed build or
\* push is the last subprocess of the run, which ends with a non-zero status.
C6_DeployStagesInOrder ==
    d_cmd = "cmd_deploy" =>
        /\ \A i \in RunsAt, j \in RunsAt :
             i < j => Stage(d_log[i]) <= Stage(d_log[j])
        /\ \A i \in RunsAt :
             d_log[i].n = "compose down up" =>
               \A s \in Selected :
                 \A op \in {"build ", "inspect ", "save ", "upload ", "load "} :
                   \E j \in RunsAt :
                     j < i /\ d_log[j].n = op \o s /\ d_log[j].rc = 0
        /\ \A i \in RunsAt :
             (Stage(d_log[i]) \in {1, 2} /\ d_log[i].rc # 0) =>
               /\ d_pc = "exited"
               /\ d_exit # 0
               /\ \A j \in RunsAt : j <= i

\* `deploy web api` has restarted the services.
C6_Witness ==
    /\ d_cmd = "cmd_deploy"
    /\ d_svcs = <<"web", "api">>
    /\ d_pc = "deploy:health"
    /\ \E i \in RunsAt : d_log[i] = Ev("ssh", "compose down up", 0)
    /\ \E i \in RunsAt : d_log[i] = Ev("scp", "scp compose", NONE)

SuccessLines == {".env file deployed", "Compose file synced",
                 "Deployment complete!", "Services restarted"}

\* The subprocesses of the step a success line reports on.
StepRuns(line) ==
    CASE line = ".env file deployed"   -> {"scp .env", "chmod .env"}
      [] line = "Compose file synced"  -> {"scp compose"}
      [] line = "Deployment complete!" -> {"compose down up"}
      [] line = "Services restarted"   -> {"compose restart"}

\* C7: a success line is printed only when every subprocess of its step
\* ended with status 0.
C7_SuccessOnlyAfterZeroExit ==
    \A i \in DOMAIN d_log :
      (d_log[i].k = "ok" /\ d_log[i].n \in SuccessLines) =>
        \A j \in RunsAt :
          (j < i /\ d_log[j].n \in StepRuns(d_log[i].n)) => d_log[j].rc = 0

IsStep(e) == e.k = "ssh" /\ e.n \in Range(StepNames)

\* The provisioning steps issued so far, in order.
StepsIssued == SelectSeq(d_log, IsStep)

\* C8: once cmd_setup has its host, the six provisioning steps are each
\* issued exactly once, in the order of the list, whatever the earlier steps
\* returned; a failing step is followed by its warning, the loop goes on, and
\* the command never ends with a non-zero status.
C8_ProvisioningBestEffort ==
    d_cmd = "cmd_setup" =>
        /\ Len(StepsIssued) <= Len(StepNames)
        /\ \A i \in DOMAIN StepsIssued : StepsIssued[i].n = StepNames[i]
        /\ (d_pc = "setup:step" => Len(StepsIssued) = d_i - 1)
        /\ (d_pc \in {"setup:env", "pause", "menu"} \/ (d_pc = "exited" /\ d_exit = 0)
              => Len(StepsIssued) = Len(StepNames))
        /\ (d_pc = "exited" /\ d_exit # 0 => Len(StepsIssued) = 0)
        /\ \A i \in DOMAIN d_log :
             IsStep(d_log[i]) =>
               /\ i + 1 \in DOMAIN d_log
               /\ d_log[i + 1] = Say(IF d_log[i].rc = 0 THEN "ok" ELSE "warn",
                                     d_log[i].n)

\* `setup` has ended with status 0 although its first and its last step failed.
C8_Witness ==
    /\ d_cmd = "cmd_setup"
    /\ d_pc = "exited"
    /\ d_exit = 0
    /\ Len(StepsIssued) = Len(StepNames)
    /\ StepsIssued[1].rc # 0
    /\ StepsIssued[Len(StepNames)].rc # 0

(***************************************************************************)
(* Properties of mobile_setup.py                                           *)
(***************************************************************************)
\* C9: however often the wizard runs, in one invocation of the tool or in
\* several, the profile file holds at most one export block.
C9_ExportBlockAtMostOnce == profileBlocks <= 1

\* C10: at most one bundler the tool has spawned is alive at any time.
C10_AtMostOneBundlerAlive == Cardinality(Alive(bundler)) <= 1

(***************************************************************************)
(* run.py                                                                  *)
(*                                                                         *)
(* A background child is "running" from Popen until it ends, and "dead"    *)
(* afterwards; it is tracked once it is in background_processes.  SIGINT   *)
(* and SIGTERM may be delivered at any point after main has installed its  *)
(* handlers; Python runs the handler between two bytecodes of the main     *)
(* thread, so also between Popen's return and the append that follows it.  *)
(***************************************************************************)
RunEv(kind, name, rc) == [k |-> kind, n |-> name, rc |-> rc]

RunLog(evs) == r_log' = r_log \o evs

\* The exit status is decided (main returns, sys.exit, a traceback); the
\* interpreter then runs the atexit hook, cleanup_processes, before it ends.
RunExit(code) ==
    /\ r_pc' = "atexit:term"
    /\ r_exit' = code

\* Words the operator may type as the command.
RunWords == {"all", "", "stop", "logs", "rebuild", "status", "help", "api",
             "web", "desktop", "docker", "deploy"}

\* The branch that ignores --local.
RunBranch_ignores_local(local, command) ==
    CASE command = "stop"    -> "docker_stop"
      [] command = "logs"    -> "docker_logs"
      [] command = "rebuild" -> "docker_rebuild"
      [] command = "status"  -> "docker_status"
      [] command = "help"    -> "show_help"
      [] command \in {"all", ""} -> "docker_start_all"
      [] OTHER               -> "none"

\* The branch of main's if/elif chain a command takes in a mode, "none" for
\* the else branch.
RunBranch(local, command) ==
    IF ~local
    THEN CASE command = "stop"    -> "docker_stop"
           [] command = "logs"    -> "docker_logs"
           [] command = "rebuild" -> "docker_rebuild"
           [] command = "status"  -> "docker_status"
           [] command = "help"    -> "show_help"
           [] command \in {"all", ""} -> "docker_start_all"
           [] OTHER               -> "none"
    ELSE CASE command = "api"     -> "local_api"
           [] command = "web"     -> "local_start_web"
           [] command = "desktop" -> "local_start_desktop"
           [] command = "docker"  -> "local_docker"
           [] command = "stop"    -> "local_stop_docker"
           [] command = "help"    -> "show_help"
           [] command \in {"all", ""} -> "local_start_all"
           [] OTHER               -> "none"

\* The subprocesses of a branch that runs them one after the other with
\* subprocess.run or a foreground run_command; <<>> for the others.
BranchRuns(b) ==
    CASE b = "docker_stop"         -> <<"compose down">>
      [] b = "docker_logs"         -> <<"compose logs">>
      [] b = "docker_rebuild"      -> <<"compose down", "compose build", "compose up">>
      [] b = "docker_status"       -> <<"compose ps">>
      [] b = "docker_start_all"    -> <<"compose up">>
      [] b = "local_api"           -> <<"compose up infra", "dotnet run">>
      [] b = "local_start_web"     -> <<"pnpm dev:web">>
      [] b = "local_start_desktop" -> <<"pnpm dev">>
      [] b = "local_docker"        -> <<"compose up infra">>
      [] b = "local_stop_docker"   -> <<"compose stop infra">>
      [] OTHER                     -> <<>>

\* Subprocesses started through run_command, which catches a missing program;
\* the others are started with subprocess.run, where it is uncaught.
ViaRunCommand == {"dotnet run", "pnpm dev:web", "pnpm dev"}

\* main(): handlers installed, arguments parsed, the branch chosen.  argparse
\* stores --docker and never reads it.
RunMain ==
    /\ r_pc = "idle"
    /\ \E docker \in BOOLEAN, local \in BOOLEAN, command \in RunWords :
         LET b == RunBranch(local, command)
         IN /\ r_local' = local
            /\ r_cmd' = command
            /\ r_called' = IF b = "none" THEN <<>> ELSE <<b>>
            /\ r_pc' = CASE b = "none"            -> "unknown"
                         [] b = "show_help"       -> "help"
                         [] b = "local_start_all" -> "all:infra"
                         [] OTHER                 -> "runs"
    /\ r_log' = <<>>
    /\ r_exit' = -1
    /\ r_kids' = [k \in {"api", "web"} |-> NoKid]
    /\ UNCHANGED nonRunVars

\* print_error("Unknown command"), show_help(), sys.exit(1)
RunUnknown ==
    /\ r_pc = "unknown"
    /\ RunExit(1)
    /\ UNCHANGED <<r_local, r_cmd, r_called, r_log, r_kids>>
    /\ UNCHANGED nonRunVars

RunHelp ==
    /\ r_pc = "help"
    /\ RunExit(0)
    /\ UNCHANGED <<r_local, r_cmd, r_called, r_log, r_kids>>
    /\ UNCHANGED nonRunVars

Runs == SelectSeq(r_log, LAMBDA e : e.k = "run")

\* The next subprocess of the branch; no exit status is looked at.  A missing
\* program ends the script with a traceback unless run_command started it.
RunForeground ==
    /\ r_pc = "runs"
    /\ LET todo == BranchRuns(r_called[1])
           name == todo[Len(Runs) + 1]
       IN \E rc \in RCs :
            /\ RunLog(<<RunEv("run", name, rc)>>)
            /\ IF rc = NOTFOUND /\ name \notin ViaRunCommand
               THEN RunExit(1)
               ELSE IF Len(Runs) + 1 = Len(todo)
                    THEN RunExit(0)
                    ELSE UNCHANGED <<r_pc, r_exit>>
    /\ UNCHANGED <<r_local, r_cmd, r_called, r_kids>>
    /\ UNCHANGED nonRunVars

\* `proc.poll() is None` for a process of background_processes.  A process
\* that was sent a signal is running until it has ended (ChildEnds).
still_running_if_tracked(kid) == kid.tracked

still_running(kid) == kid.tracked /\ kid.st = "running"

\* The list background_processes, in the order of the appends.
background_processes ==
    SelectSeq(<<"api", "web">>, LAMBDA k : r_kids[k].tracked)

\* One `for proc in background_processes` loop of cleanup_processes: the
\* signal goes to every process of the list that is still running.
SendAll(sig) ==
    LET to == SelectSeq(background_processes,
                        LAMBDA k : still_running(r_kids[k]))
    IN  /\ r_kids' = [k \in DOMAIN r_kids |->
                        IF k \in Range(to)
                        THEN [r_kids[k] EXCEPT !.signalled = TRUE]
                        ELSE r_kids[k]]
        /\ RunLog([i \in DOMAIN to |-> RunEv(sig, to[i], 0)]
                  \o (IF sig = "KILL" THEN <<RunEv("cleaned", "", 0)>>
                      ELSE <<>>))

\* The callers of cleanup_processes: local_start_all after its wait loop,
\* signal_handler, the atexit hook.
CleanupRuns == {"loop", "signal", "atexit"}

\* cleanup_processes has returned: the atexit hook ends the process;
\* local_start_all returns to main, which returns; signal_handler calls
\* sys.exit(0).
CleanupReturns(caller) ==
    IF caller = "atexit"
    THEN r_pc' = "exited" /\ UNCHANGED r_exit
    ELSE RunExit(0)

\* cleanup_processes, first loop: nothing at all with an empty list, else
\* SIGTERM to the process group of every process still running.
CleanupTerm ==
    \E caller \in CleanupRuns :
      /\ r_pc = caller \o ":term"
      /\ IF background_processes = <<>>
         THEN /\ CleanupReturns(caller)
              /\ UNCHANGED <<r_kids, r_log>>
         ELSE /\ SendAll("TERM")
              /\ r_pc' = caller \o ":sleep"
              /\ UNCHANGED r_exit
      /\ UNCHANGED <<r_local, r_cmd, r_called>>
      /\ UNCHANGED nonRunVars

\* cleanup_processes: time.sleep(1)
CleanupSleep ==
    \E caller \in CleanupRuns :
      /\ r_pc = caller \o ":sleep"
      /\ RunLog(<<RunEv("sleep", "1", 0)>>)
      /\ r_pc' = caller \o ":kill"
      /\ UNCHANGED <<r_local, r_cmd, r_called, r_kids, r_exit>>
      /\ UNCHANGED nonRunVars

\* cleanup_processes, second loop: proc.kill() for every process still
\* running, and return.
CleanupKill ==
    \E caller \in CleanupRuns :
      /\ r_pc = caller \o ":kill"
      /\ SendAll("KILL")
      /\ CleanupReturns(caller)
      /\ UNCHANGED <<r_local, r_cmd, r_called>>
      /\ UNCHANGED nonRunVars

cleanup_processes ==
    \/ CleanupTerm
    \/ CleanupSleep
    \/ CleanupKill

SignalsSoFar == Len(SelectSeq(r_log, LAMBDA e : e.k = "signal"))

\* SIGINT or SIGTERM is delivered while the script runs, also while
\* cleanup_processes runs: signal_handler starts cleanup_processes and then
\* calls sys.exit(0); what was interrupted is never resumed.  A signal during
\* the atexit hook is not followed.
RunSignal ==
    /\ r_pc \notin {"idle", "exited", "atexit:term", "atexit:sleep",
                    "atexit:kill"}
    /\ SignalsSoFar < MaxSignals
    /\ RunLog(<<RunEv("signal", "SIGINT", 0)>>)
    /\ r_pc' = "signal:term"
    /\ UNCHANGED <<r_local, r_cmd, r_called, r_kids, r_exit>>
    /\ UNCHANGED nonRunVars

\* A background child ends by itself.
ChildEnds ==
    /\ \E k \in DOMAIN r_kids :
         /\ r_kids[k].st = "running"
         /\ r_kids' = [r_kids EXCEPT ![k].st = "dead"]
    /\ UNCHANGED <<r_pc, r_local, r_cmd, r_called, r_log, r_exit>>
    /\ UNCHANGED nonRunVars

\* local_start_docker() in local_start_all: subprocess.run(up -d postgres
\* redis pgadmin), whose exit status is not looked at, then time.sleep(2).
AllInfra ==
    /\ r_pc = "all:infra"
    /\ \E rc \in RCs :
         IF rc = NOTFOUND
         THEN /\ RunLog(<<RunEv("run", "compose up infra", rc)>>)
              /\ RunExit(1)
         ELSE /\ RunLog(<<RunEv("run", "compose up infra", rc),
                          RunEv("sleep", "2", 0)>>)
              /\ r_pc' = "all:api"
              /\ UNCHANGED r_exit
    /\ UNCHANGED <<r_local, r_cmd, r_called, r_kids>>
    /\ UNCHANGED nonRunVars

\* run_command(cmd, background=True) up to Popen's return: the child runs and
\* is not yet in background_processes; a missing program gives None.
Popen(k, next) ==
    \E found \in BOOLEAN :
      IF found
      THEN /\ r_kids' = [r_kids EXCEPT ![k].st = "running"]
           /\ RunLog(<<RunEv("spawn", k, 0)>>)
           /\ r_pc' = "all:" \o k \o ":append"
      ELSE /\ RunLog(<<RunEv("spawn", k, NONE)>>)
           /\ r_pc' = next
           /\ UNCHANGED r_kids

\* Where local_start_all goes on after time.sleep(3).
AfterApiDelay_needs_api ==
    IF r_kids["api"].st = "running" THEN "all:web" ELSE "all:wait"

AfterApiDelay == "all:web"

AllApi ==
    /\ r_pc = "all:api"
    /\ Popen("api", "all:sleep")
    /\ UNCHANGED <<r_local, r_cmd, r_called, r_exit>>
    /\ UNCHANGED nonRunVars

\* background_processes.append(process)
AllAppend ==
    /\ r_pc \in {"all:api:append", "all:web:append"}
    /\ LET k == IF r_pc = "all:api:append" THEN "api" ELSE "web"
       IN /\ r_kids' = [r_kids EXCEPT ![k].tracked = TRUE]
          /\ r_pc' = IF k = "api" THEN "all:sleep" ELSE "all:wait"
    /\ UNCHANGED <<r_local, r_cmd, r_called, r_log, r_exit>>
    /\ UNCHANGED nonRunVars

\* time.sleep(3)
AllSleep ==
    /\ r_pc = "all:sleep"
    /\ RunLog(<<RunEv("sleep", "3", 0)>>)
    /\ r_pc' = AfterApiDelay
    /\ UNCHANGED <<r_local, r_cmd, r_called, r_kids, r_exit>>
    /\ UNCHANGED nonRunVars

AllWeb ==
    /\ r_pc = "all:web"
    /\ Popen("web", "all:wait")
    /\ UNCHANGED <<r_local, r_cmd, r_called, r_exit>>
    /\ UNCHANGED nonRunVars

\* `if not api_running and not web_running`
all_stopped_when_one_has(api_running, web_running) ==
    ~api_running \/ ~web_running

all_stopped(api_running, web_running) == ~api_running /\ ~web_running

\* `api_proc and api_proc.poll() is None`: None when the spawn failed
proc_running(k) == r_kids[k].st = "running"

\* One iteration of the wait loop: with neither child running "All services
\* have stopped" and on to cleanup_processes(); otherwise time.sleep(1) and
\* once more.
AllWait ==
    /\ r_pc = "all:wait"
    /\ IF all_stopped(proc_running("api"), proc_running("web"))
       THEN r_pc' = "loop:term"
       ELSE UNCHANGED r_pc
    /\ UNCHANGED <<r_local, r_cmd, r_called, r_log, r_kids, r_exit>>
    /\ UNCHANGED nonRunVars

RunNext ==
    \/ RunMain
    \/ RunUnknown
    \/ RunHelp
    \/ RunForeground
    \/ RunSignal
    \/ cleanup_processes
    \/ ChildEnds
    \/ AllInfra
    \/ AllApi
    \/ AllAppend
    \/ AllSleep
    \/ AllWeb
    \/ AllWait

\* run.py alone: one invocation.
InitRun ==
    /\ fileExists = FALSE
    /\ file = EmptyRec
    /\ DeployIdle
    /\ MobileIdle
    /\ RunIdle
    /\ SetupIdle
    /\ DesktopIdle
    /\ RebuildIdle

SpecRun == InitRun /\ [][RunNext]_vars

(***************************************************************************)
(* Properties of run.py                                                    *)
(***************************************************************************)
\* C11: whenever the script has exited, on a signal or otherwise, no
\* background child it spawned is still running: every child that was running
\* when the signal came was tracked and was sent a termination signal.
C11_NoChildLeftRunning ==
    r_pc = "exited" =>
        \A k \in DOMAIN r_kids :
           r_kids[k].st = "running" =>
              \E i \in DOMAIN r_log : r_log[i] = RunEv("KILL", k, 0)

SpawnsAt(k) == { i \in DOMAIN r_log : r_log[i].k = "spawn" /\ r_log[i].n = k }

\* C12: in local all-services mode the start command of the infrastructure
\* containers has returned before the API is spawned, the API is spawned
\* (or its spawn has failed) and three seconds have passed before the web
\* process is spawned, and the web process is spawned whether or not the API
\* started or is still alive.
C12_SequentialStartUp ==
    r_called = <<"local_start_all">> =>
        /\ \A i \in SpawnsAt("api") :
             \E h \in 1..(i - 1) : r_log[h].k = "run" /\ r_log[h].n = "compose up infra"
        /\ \A j \in SpawnsAt("web") :
             \E i \in SpawnsAt("api") :
               /\ i < j
               /\ \E d \in (i + 1)..(j - 1) : r_log[d] = RunEv("sleep", "3", 0)
        /\ Cardinality(SpawnsAt("api")) <= 1
        /\ Cardinality(SpawnsAt("web")) <= 1
        /\ (r_pc \in {"all:web:append", "all:wait"} => SpawnsAt("web") # {})

\* The web process was spawned although the API could not be started.
C12_Witness ==
    /\ r_pc = "all:wait"
    /\ r_kids["api"].st = "none"
    /\ r_kids["web"].st = "running"
    /\ r_log = <<RunEv("run", "compose up infra", 1), RunEv("sleep", "2", 0),
                 RunEv("spawn", "api", NONE), RunEv("sleep", "3", 0),
                 RunEv("spawn", "web", 0)>>

DockerCommands == {"stop", "logs", "rebuild", "status", "help", "all", ""}
LocalCommands == {"api", "web", "desktop", "docker", "stop", "help", "all", ""}

Started == { i \in DOMAIN r_log : r_log[i].k \in {"run", "spawn"} }

PG_MAX_WAIT == 60    \* wait_for_postgres(max_wait=60)
API_MAX_WAIT == 90   \* wait_for_api(max_wait=90)
POLL_SLEEP == 2      \* time.sleep(2) after a failed probe
HTTP_OK == 200       \* response.status of a healthy API

\* What run_command returns: None, or a completed process with its status.
Results == {NONE, 0, 1}

\* What urlopen gives: an exception, or a response with its status.
Responses == {NONE, HTTP_OK, 204}

SetupEv(kind, name, rc) == [k |-> kind, n |-> name, rc |-> rc]

SetupLog(evs) == s_log' = s_log \o evs

SetupExit(code) ==
    /\ s_pc' = "exited"
    /\ s_exit' = code

\* `result and result.returncode == 0`
succeeded(result) == result # NONE /\ result = 0

\* `response.status == 200` inside the try block
healthy_on_any_response(response) == response # NONE

healthy(response) == response # NONE /\ response = HTTP_OK

max_wait(w) == IF w = "pg" THEN PG_MAX_WAIT ELSE API_MAX_WAIT

\* main: the mode is docker with --docker, else local with --local, else
\* monitor.
SetupMain ==
    /\ s_pc = "idle"
    /\ \E docker \in BOOLEAN, local \in BOOLEAN :
          /\ s_mode' = IF docker THEN "docker"
                       ELSE IF local THEN "local" ELSE "monitor"
          /\ s_pc' = IF docker THEN "prereq"
                     ELSE IF local THEN "local" ELSE "monitor"
    /\ UNCHANGED <<s_log, s_exit, s_t, s_probes, s_hit, s_ret>>
    /\ UNCHANGED nonSetupVars

\* setup_docker, first step: check_docker_prerequisites; exit 1 if it fails.
check_docker_prerequisites ==
    /\ s_pc = "prereq"
    /\ \E docker \in BOOLEAN, compose \in Results, legacy \in Results,
          info \in Results :
          LET compose_ok == succeeded(compose) \/ succeeded(legacy)
              all_ok == docker /\ compose_ok /\ succeeded(info)
              evs == <<SetupEv("run", "compose version", compose)>>
                     \o (IF succeeded(compose) THEN <<>>
                         ELSE <<SetupEv("run", "docker-compose --version",
                                        legacy)>>)
                     \o <<SetupEv("run", "docker info", info)>>
          IN  /\ SetupLog(evs)
              /\ IF all_ok
                 THEN s_pc' = "build" /\ UNCHANGED s_exit
                 ELSE SetupExit(1)
    /\ UNCHANGED <<s_mode, s_t, s_probes, s_hit, s_ret>>
    /\ UNCHANGED nonSetupVars

\* setup_docker, second step: build_docker_images; exit 1 if it fails.
build_docker_images ==
    /\ s_pc = "build"
    /\ \E result \in Results :
          /\ SetupLog(<<SetupEv("run", "build", result)>>)
          /\ IF succeeded(result)
             THEN s_pc' = "infra" /\ UNCHANGED s_exit
             ELSE SetupExit(1)
    /\ UNCHANGED <<s_mode, s_t, s_probes, s_hit, s_ret>>
    /\ UNCHANGED nonSetupVars

\* start_docker_services: True when `up -d` of the services exits zero.
start_docker_services_whatever_status(result) == result # NONE

start_docker_services(result) == succeeded(result)

\* setup_docker, third step: the infrastructure services, then sleep(3) and
\* into wait_for_postgres; exit 1 if the start fails.
SetupInfra ==
    /\ s_pc = "infra"
    /\ \E result \in Results :
          IF start_docker_services(result)
          THEN /\ SetupLog(<<SetupEv("up", "postgres redis", result),
                             SetupEv("sleep", "3", 0)>>)
               /\ s_pc' = "pg:loop"
               /\ UNCHANGED s_exit
          ELSE /\ SetupLog(<<SetupEv("up", "postgres redis", result)>>)
               /\ SetupExit(1)
    /\ s_t' = 0
    /\ s_probes' = 0
    /\ UNCHANGED <<s_mode, s_hit, s_ret>>
    /\ UNCHANGED nonSetupVars

\* `while time.time() - start_time < max_wait`
loop_continues(elapsed, limit) == elapsed < limit

\* The loop test of a wait loop: another probe, or give up and return False.
WaitLoop(w, after) ==
    /\ s_pc = w \o ":loop"
    /\ IF loop_continues(s_t, max_wait(w))
       THEN /\ s_pc' = w \o ":probe"
            /\ UNCHANGED s_ret
       ELSE /\ s_ret' = [s_ret EXCEPT ![w] = "false"]
            /\ s_pc' = after
    /\ UNCHANGED <<s_mode, s_log, s_exit, s_t, s_probes, s_hit>>
    /\ UNCHANGED nonSetupVars

\* After a failed probe: print a dot, time.sleep(2), back to the loop test.
WaitSleep(w) ==
    /\ s_pc = w \o ":sleep"
    /\ s_t' = s_t + POLL_SLEEP
    /\ s_pc' = w \o ":loop"
    /\ UNCHANGED <<s_mode, s_log, s_exit, s_probes, s_hit, s_ret>>
    /\ UNCHANGED nonSetupVars

\* One probe of a wait loop; it takes some time, and a success returns True.
\* `ready` is the test the code makes, `success` what the probe found.
WaitProbe(w, ready, success, after) ==
    /\ s_pc = w \o ":probe"
    /\ \E took \in 0 .. MaxProbeTime : s_t' = s_t + took
    /\ s_probes' = s_probes + 1
    /\ s_hit' = [s_hit EXCEPT ![w] = @ \/ success]
    /\ IF ready
       THEN /\ s_ret' = [s_ret EXCEPT ![w] = "true"]
            /\ s_pc' = after
       ELSE /\ s_pc' = w \o ":sleep"
            /\ UNCHANGED s_ret
    /\ UNCHANGED <<s_mode, s_log, s_exit>>
    /\ UNCHANGED nonSetupVars

\* Where wait_for_postgres returns to: setup_docker or setup_local.
AfterPostgres == IF s_mode = "local" THEN "l:install" ELSE "apps"

\* wait_for_postgres: the probe is `docker exec teboraw-postgres pg_isready`.
wait_for_postgres ==
    \/ WaitLoop("pg", AfterPostgres)
    \/ \E result \in Results :
          WaitProbe("pg", succeeded(result), result = 0, AfterPostgres)
    \/ WaitSleep("pg")

\* setup_docker, after wait_for_postgres returned (its value only selects a
\* warning): the application containers, then sleep(5) and into
\* wait_for_api; exit 1 if the start fails.
SetupApps ==
    /\ s_pc = "apps"
    /\ \E result \in Results :
          IF start_docker_services(result)
          THEN /\ SetupLog(<<SetupEv("up", "api web pgadmin", result),
                             SetupEv("sleep", "5", 0)>>)
               /\ s_pc' = "api:loop"
               /\ UNCHANGED s_exit
          ELSE /\ SetupLog(<<SetupEv("up", "api web pgadmin", result)>>)
               /\ SetupExit(1)
    /\ s_t' = 0
    /\ s_probes' = 0
    /\ UNCHANGED <<s_mode, s_hit, s_ret>>
    /\ UNCHANGED nonSetupVars

\* wait_for_api: the probe is urlopen of /health with a 5 second timeout.
wait_for_api ==
    \/ WaitLoop("api", "finish")
    \/ \E response \in Responses :
          WaitProbe("api", healthy(response), response = HTTP_OK, "finish")
    \/ WaitSleep("api")

\* setup_docker, last steps: install_chrome_extension and the completion
\* message; main returns.
SetupFinish ==
    /\ s_pc = "finish"
    /\ SetupExit(0)
    /\ UNCHANGED <<s_mode, s_log, s_t, s_probes, s_hit, s_ret>>
    /\ UNCHANGED nonSetupVars

(***************************************************************************)
(* setup.py: setup_local                                                   *)
(***************************************************************************)
\* check_local_prerequisites: node 18+, pnpm (installed through npm when
\* missing), the .NET SDK and docker; setup_local exits 1 when it fails.
check_local_prerequisites ==
    /\ s_pc = "local"
    /\ \E node \in BOOLEAN, pnpm \in BOOLEAN, dotnet \in BOOLEAN,
          docker \in BOOLEAN :
          LET all_ok == node /\ pnpm /\ dotnet /\ docker
          IN  IF all_ok
              THEN /\ SetupLog(<<SetupEv("step", "prerequisites", 0)>>)
                   /\ s_pc' = "l:infra"
                   /\ UNCHANGED s_exit
              ELSE /\ SetupLog(<<SetupEv("step", "prerequisites", 1),
                                 SetupEv("err", "Prerequisites check failed", 0)>>)
                   /\ SetupExit(1)
    /\ UNCHANGED <<s_mode, s_t, s_probes, s_hit, s_ret>>
    /\ UNCHANGED nonSetupVars

\* The database containers, then sleep(3) and into wait_for_postgres; exit 1
\* if the start fails.
LocalInfra ==
    /\ s_pc = "l:infra"
    /\ \E result \in Results :
          IF start_docker_services(result)
          THEN /\ SetupLog(<<SetupEv("step", "up postgres redis pgadmin", result),
                             SetupEv("sleep", "3", 0)>>)
               /\ s_pc' = "pg:loop"
               /\ UNCHANGED s_exit
          ELSE /\ SetupLog(<<SetupEv("step", "up postgres redis pgadmin", result)>>)
               /\ SetupExit(1)
    /\ s_t' = 0
    /\ s_probes' = 0
    /\ UNCHANGED <<s_mode, s_hit, s_ret>>
    /\ UNCHANGED nonSetupVars

\* Returns False on every exit status but zero.
install_dependencies_needs_zero(result) == succeeded(result)

\* install_dependencies: False only when `pnpm install` could not be run; a
\* non-zero exit is reported and the setup goes on.
install_dependencies(result) == result # NONE

\* One step of setup_local that ends the process with status 1 when it
\* returns False.
LocalStep(name, ok, result, next) ==
    IF ok
    THEN /\ SetupLog(<<SetupEv("step", name, result)>>)
         /\ s_pc' = next
         /\ UNCHANGED s_exit
    ELSE /\ SetupLog(<<SetupEv("step", name, result),
                       SetupEv("err", "Failed: " \o name, 0)>>)
         /\ SetupExit(1)

\* After wait_for_postgres, whose False only prints a warning:
\* install_dependencies.
LocalInstall ==
    /\ s_pc = "l:install"
    /\ \E result \in Results :
          LocalStep("pnpm install", install_dependencies(result), result,
                    "l:types")
    /\ UNCHANGED <<s_mode, s_t, s_probes, s_hit, s_ret>>
    /\ UNCHANGED nonSetupVars

\* `result and result.returncode == 0` of `pnpm build` in shared-types
build_shared_types(result) == succeeded(result)

LocalTypes ==
    /\ s_pc = "l:types"
    /\ \E result \in Results :
          LocalStep("pnpm build", build_shared_types(result), result,
                    "l:restore")
    /\ UNCHANGED <<s_mode, s_t, s_probes, s_hit, s_ret>>
    /\ UNCHANGED nonSetupVars

\* `result and result.returncode == 0` of `dotnet restore`
restore_dotnet_packages(result) == succeeded(result)

LocalRestore ==
    /\ s_pc = "l:restore"
    /\ \E result \in Results :
          LocalStep("dotnet restore", restore_dotnet_packages(result), result,
                    "l:migrate")
    /\ UNCHANGED <<s_mode, s_t, s_probes, s_hit, s_ret>>
    /\ UNCHANGED nonSetupVars

\* apply_migrations returns True whatever `dotnet ef database update` did,
\* and setup_local does not look at it; then install_chrome_extension and
\* the completion message, and main returns.
LocalFinish ==
    /\ s_pc = "l:migrate"
    /\ \E result \in Results :
          SetupLog(<<SetupEv("step", "ef database update", result),
                     SetupEv("step", "extension", 0),
                     SetupEv("step", "completion", 0)>>)
    /\ SetupExit(0)
    /\ UNCHANGED <<s_mode, s_t, s_probes, s_hit, s_ret>>
    /\ UNCHANGED nonSetupVars

setup_local ==
    \/ check_local_prerequisites
    \/ LocalInfra
    \/ LocalInstall
    \/ LocalTypes
    \/ LocalRestore
    \/ LocalFinish

(***************************************************************************)
(* setup.py: monitor_services                                              *)
(***************************************************************************)
\* What get_container_stats may give: the services of the containers found.
ContainerLists == {<<>>, <<"api", "web">>}

\* What the operator may type at a prompt of the monitor.
MonitorTyped == {"q", "Q", "r", "1", "2", "3", "4", "5", "6", "x"}
SelectTyped == {"c", "a", "0", "2", "3", "x"}
ConfirmTyped == {"y", "Y", "n", ""}

\* input(...).strip().lower()
strip_lower(typed) ==
    CASE typed = "Q" -> "q"
      [] typed = "Y" -> "y"
      [] OTHER -> typed

\* An invalid choice selects the first service.
select_service_defaults_to_first(services, typed) ==
    LET choice == strip_lower(typed)
        idx == ChoiceInt(choice) - 1
    IN  IF choice = "c" THEN ""
        ELSE IF choice = "a" THEN "all"
        ELSE IF 0 <= idx /\ idx < Len(services) THEN services[idx + 1]
        ELSE services[1]

\* select_service(containers): None (here "", which `if service:` treats
\* alike) on 'c' and on an invalid choice, 'all' on 'a', else the service
\* with the number typed.
monitor_select_service(services, typed) ==
    LET choice == strip_lower(typed)
        idx == ChoiceInt(choice) - 1
    IN  IF choice = "c" THEN ""
        ELSE IF choice = "a" THEN "all"
        ELSE IF 0 <= idx /\ idx < Len(services) THEN services[idx + 1]
        ELSE ""

MonitorRounds == Len(SelectSeq(s_log, LAMBDA e : e.k = "input"))

\* The loop goes on with its next pass.
MonitorContinue(evs) ==
    /\ SetupLog(evs)
    /\ UNCHANGED <<s_pc, s_exit>>

\* `break`, then "Monitor closed"; main returns.
MonitorBreak(evs) ==
    /\ SetupLog(evs \o <<SetupEv("ok", "Monitor closed", 0)>>)
    /\ SetupExit(0)

\* Choices '1', '2' and '4': select_service, then the action on its result.
\* The exit status of the compose command only selects the line printed.
MonitorOnService(op, services, head) ==
    \E typed \in SelectTyped :
       LET service == monitor_select_service(services, typed)
           asked == head \o <<SetupEv("select", typed, 0)>>
       IN  IF service # ""
           THEN MonitorContinue(asked \o <<SetupEv("run", op \o " " \o service, 0)>>)
           ELSE MonitorContinue(asked)

\* One pass of the `while True` loop of monitor_services.
MonitorPass ==
    /\ s_pc = "monitor"
    /\ MonitorRounds < MaxMonitorRounds
    /\ \E containers \in ContainerLists, typed \in MonitorTyped :
          LET choice == strip_lower(typed)
              head == <<SetupEv("found", "containers", Len(containers)),
                        SetupEv("input", typed, 0)>>
          IN  IF containers = <<>>
              THEN IF choice = "6"
                   THEN MonitorContinue(head \o <<SetupEv("run", "start all", 0)>>)
                   ELSE IF choice = "q"
                   THEN MonitorBreak(head)
                   ELSE MonitorContinue(head)
              ELSE CASE choice = "q" -> MonitorBreak(head)
                     [] choice = "r" -> MonitorContinue(head)
                     [] choice = "1" -> MonitorOnService("reload", containers, head)
                     [] choice = "2" -> MonitorOnService("restart", containers, head)
                     [] choice = "3" ->
                          \E confirm \in ConfirmTyped :
                             LET asked == head \o <<SetupEv("confirm", confirm, 0)>>
                             IN  IF strip_lower(confirm) = "y"
                                 THEN MonitorContinue(asked \o
                                         <<SetupEv("run", "rebuild all", 0)>>)
                                 ELSE MonitorContinue(asked)
                     [] choice = "4" -> MonitorOnService("logs", containers, head)
                     [] choice = "5" ->
                          MonitorContinue(head \o <<SetupEv("run", "stop all", 0)>>)
                     [] choice = "6" ->
                          MonitorContinue(head \o <<SetupEv("run", "start all", 0)>>)
                     [] OTHER -> MonitorContinue(head)
    /\ UNCHANGED <<s_mode, s_t, s_probes, s_hit, s_ret>>
    /\ UNCHANGED nonSetupVars

SetupNext ==
    \/ SetupMain
    \/ check_docker_prerequisites
    \/ build_docker_images
    \/ SetupInfra
    \/ wait_for_postgres
    \/ SetupApps
    \/ wait_for_api
    \/ SetupFinish
    \/ setup_local
    \/ MonitorPass

\* setup.py alone: one invocation.
InitSetup ==
    /\ fileExists = FALSE
    /\ file = EmptyRec
    /\ DeployIdle
    /\ MobileIdle
    /\ RunIdle
    /\ SetupIdle
    /\ DesktopIdle
    /\ RebuildIdle

SpecSetup == InitSetup /\ [][SetupNext]_vars

\* The same with the process scheduled: a step that can be taken is taken.
SpecSetupFair == SpecSetup /\ WF_vars(SetupNext)

(***************************************************************************)
(* Properties of setup.py                                                  *)
(***************************************************************************)
Ups(services) ==
    {i \in DOMAIN s_log : s_log[i].k = "up" /\ s_log[i].n = services}

\* C14: in the Docker setup the application containers (api, web, pgadmin)
\* are started only after the start of the infrastructure services
\* (postgres, redis) exited zero and after the PostgreSQL readiness wait
\* returned; and when the image build or the infrastructure start fails the
\* script exits with status 1 having started no application container.
C14_AppsAfterInfraAndWait ==
    /\ \A a \in Ups("api web pgadmin") :
          /\ \E i \in Ups("postgres redis") : i < a /\ s_log[i].rc = 0
          /\ s_ret["pg"] # "none"
    /\ \A i \in DOMAIN s_log :
          (s_log[i].n \in {"build", "postgres redis"} /\ s_log[i].rc # 0)
             => /\ i = Len(s_log)
                /\ s_pc = "exited"
                /\ s_exit = 1
                /\ Ups("api web pgadmin") = {}

C14_Witness ==
    /\ Ups("api web pgadmin") # {}
    /\ s_ret["pg"] = "false"
    /\ s_exit = 0

\* The most probes a wait loop can make: a failed probe is followed by a
\* sleep of POLL_SLEEP seconds, and no probe starts at or after max_wait.
MaxProbes(w) == (max_wait(w) + POLL_SLEEP - 1) \div POLL_SLEEP

InWait(w) == s_pc \in {w \o ":loop", w \o ":probe", w \o ":sleep"}

\* C15: wait_for_postgres and wait_for_api always terminate: each returns
\* True exactly when a probe succeeded, and then at once; returns False only
\* when the maximum wait has elapsed with no successful probe; makes a
\* bounded number of probes; and once entered it returns.
C15_WaitsTerminate ==
    /\ [](\A w \in Waits :
            /\ s_ret[w] = "true" <=> s_hit[w]
            /\ InWait(w) => s_probes <= MaxProbes(w))
    /\ [][\A w \in Waits :
            (s_ret[w] = "none" /\ s_ret'[w] = "false")
               => s_t >= max_wait(w) /\ ~s_hit[w]]_vars
    /\ \A w \in Waits : InWait(w) ~> s_ret[w] # "none"

C15_Witness ==
    /\ s_ret["pg"] = "false"
    /\ s_pc = "finish"
    /\ s_ret["api"] = "true"
    /\ s_probes = MaxProbes("api")

(***************************************************************************)
(* start-desktop.py: the desktop app launcher                              *)
(***************************************************************************)
DesktopEv(kind, name, rc) == [k |-> kind, n |-> name, rc |-> rc]

DesktopLog(evs) == sd_log' = sd_log \o evs

DesktopExit(code) ==
    /\ sd_pc' = "exited"
    /\ sd_exit' = code

\* sys.argv[1], or 'dev' without an argument.
DesktopWords == {"dev", "", "build", "package", "help", "--help", "-h", "bogus"}

\* main, up to the prerequisites: help is shown and main returns at once.
DesktopMain ==
    /\ sd_pc = "idle"
    /\ \E command \in DesktopWords :
          /\ sd_cmd' = command
          /\ IF command \in {"help", "--help", "-h"}
             THEN /\ DesktopLog(<<DesktopEv("say", "show_help", 0)>>)
                  /\ DesktopExit(0)
             ELSE /\ sd_pc' = "prereq"
                  /\ UNCHANGED <<sd_log, sd_exit>>
    /\ UNCHANGED sd_ret
    /\ UNCHANGED nonDesktopVars

\* check_prerequisites' return value: all_ok stays True only when both
\* find_command('node') and find_command('pnpm') found something.
all_ok_with_node(node, pnpm) == node

all_ok(node, pnpm) == node /\ pnpm

\* check_prerequisites: node and pnpm are looked up; each one found is asked
\* for its version; main exits 1 unless both were found.
DesktopPrerequisites ==
    /\ sd_pc = "prereq"
    /\ \E node \in BOOLEAN, pnpm \in BOOLEAN :
          /\ DesktopLog(<<IF node THEN DesktopEv("run", "node -v", 0)
                          ELSE DesktopEv("say", "Node.js not found", 0),
                          IF pnpm THEN DesktopEv("run", "pnpm -v", 0)
                          ELSE DesktopEv("say", "pnpm not found", 0)>>)
          /\ IF all_ok(node, pnpm)
             THEN sd_pc' = "install" /\ UNCHANGED sd_exit
             ELSE DesktopExit(1)
    /\ UNCHANGED <<sd_cmd, sd_ret>>
    /\ UNCHANGED nonDesktopVars

\* install_dependencies, then rebuild_native_modules (which only prints):
\* `pnpm install` runs when node_modules is missing; its status only selects
\* a warning.
DesktopInstall ==
    /\ sd_pc = "install"
    /\ \E node_modules \in BOOLEAN, rc \in {0, 1}, uiohook \in BOOLEAN :
          DesktopLog((IF node_modules THEN <<>>
                      ELSE <<DesktopEv("run", "pnpm install", rc)>>)
                     \o <<DesktopEv("say", IF uiohook
                                              THEN "Native modules found"
                                              ELSE "Native modules not found",
                                     0)>>)
    /\ sd_pc' = "dispatch"
    /\ UNCHANGED <<sd_cmd, sd_ret, sd_exit>>
    /\ UNCHANGED nonDesktopVars

\* main's command dispatch.
DesktopDispatch ==
    /\ sd_pc = "dispatch"
    /\ CASE sd_cmd \in {"dev", ""} ->
              /\ sd_pc' = "dev"
              /\ UNCHANGED <<sd_log, sd_exit>>
         [] sd_cmd = "build" ->
              /\ sd_pc' = "build"
              /\ UNCHANGED <<sd_log, sd_exit>>
         [] sd_cmd = "package" ->
              /\ sd_pc' = "package:build"
              /\ UNCHANGED <<sd_log, sd_exit>>
         [] OTHER ->
              /\ DesktopLog(<<DesktopEv("say", "Unknown command", 0),
                              DesktopEv("say", "show_help", 0)>>)
              /\ DesktopExit(1)
    /\ UNCHANGED <<sd_cmd, sd_ret>>
    /\ UNCHANGED nonDesktopVars

\* start_desktop_dev: the dev script runs in the foreground; main returns.
start_desktop_dev ==
    /\ sd_pc = "dev"
    /\ \E rc \in {0, 1} : DesktopLog(<<DesktopEv("run", "pnpm dev", rc)>>)
    /\ DesktopExit(0)
    /\ UNCHANGED <<sd_cmd, sd_ret>>
    /\ UNCHANGED nonDesktopVars

\* build_desktop's return value: True exactly when the build exited zero.
build_desktop_true_anyway(rc) == TRUE

build_desktop(rc) == rc = 0

Bool(b) == IF b THEN "true" ELSE "false"

\* The build command: build_desktop; main drops its value and returns.
DesktopBuild ==
    /\ sd_pc = "build"
    /\ \E rc \in {0, 1} :
          /\ DesktopLog(<<DesktopEv("run", "pnpm build", rc)>>)
          /\ sd_ret' = [sd_ret EXCEPT !["build"] = Bool(build_desktop(rc))]
    /\ DesktopExit(0)
    /\ UNCHANGED sd_cmd
    /\ UNCHANGED nonDesktopVars

\* package_desktop, first half: build_desktop; False is returned at once when
\* the build fails, and main drops the value and returns.
PackageBuild ==
    /\ sd_pc = "package:build"
    /\ \E rc \in {0, 1} :
          /\ DesktopLog(<<DesktopEv("run", "pnpm build", rc)>>)
          /\ IF build_desktop(rc)
             THEN /\ sd_ret' = [sd_ret EXCEPT !["build"] = "true"]
                  /\ sd_pc' = "package:package"
                  /\ UNCHANGED sd_exit
             ELSE /\ sd_ret' = [sd_ret EXCEPT !["build"] = "false",
                                              !["package"] = "false"]
                  /\ DesktopExit(0)
    /\ UNCHANGED sd_cmd
    /\ UNCHANGED nonDesktopVars

\* package_desktop, second half: the packaging step; True exactly when it
\* exited zero.
PackagePackage ==
    /\ sd_pc = "package:package"
    /\ \E rc \in {0, 1} :
          /\ DesktopLog(<<DesktopEv("run", "pnpm package", rc)>>)
          /\ sd_ret' = [sd_ret EXCEPT !["package"] = Bool(rc = 0)]
    /\ DesktopExit(0)
    /\ UNCHANGED sd_cmd
    /\ UNCHANGED nonDesktopVars

DesktopNext ==
    \/ DesktopMain
    \/ DesktopPrerequisites
    \/ DesktopInstall
    \/ DesktopDispatch
    \/ start_desktop_dev
    \/ DesktopBuild
    \/ PackageBuild
    \/ PackagePackage

\* start-desktop.py alone: one invocation.
InitDesktop ==
    /\ fileExists = FALSE
    /\ file = EmptyRec
    /\ DeployIdle
    /\ MobileIdle
    /\ RunIdle
    /\ SetupIdle
    /\ DesktopIdle
    /\ RebuildIdle

SpecDesktop == InitDesktop /\ [][DesktopNext]_vars

(***************************************************************************)
(* Properties of start-desktop.py                                          *)
(***************************************************************************)
DesktopRuns(name) ==
    {i \in DOMAIN sd_log : sd_log[i].k = "run" /\ sd_log[i].n = name}

\* C20: the package command runs the packaging step only after the build
\* step exited zero; when the build fails the packaging step is never
\* invoked and package_desktop returns False; package_desktop returns True
\* when both steps exited zero.
C20_PackageOnlyAfterBuild ==
    /\ \A p \in DesktopRuns("pnpm package") :
          \E b \in DesktopRuns("pnpm build") : b < p /\ sd_log[b].rc = 0
    /\ (sd_cmd = "package"
          /\ \E b \in DesktopRuns("pnpm build") : sd_log[b].rc # 0)
          => /\ DesktopRuns("pnpm package") = {}
             /\ sd_ret["package"] = "false"
    /\ (/\ \E b \in DesktopRuns("pnpm build") : sd_log[b].rc = 0
        /\ \E p \in DesktopRuns("pnpm package") : sd_log[p].rc = 0)
          => sd_ret["package"] = "true"

C20_Witness ==
    /\ sd_cmd = "package"
    /\ sd_pc = "exited"
    /\ sd_ret["package"] = "true"
    /\ DesktopRuns("pnpm package") # {}

(***************************************************************************)
(* mobile_setup.py: check_rebuild_needed                                   *)
(*                                                                         *)
(* Modification times are timestamps (ticks since the epoch).  The code    *)
(* compares them after datetime.fromtimestamp, which gives the naive local *)
(* wall-clock time: the timestamp plus the UTC offset in force at that     *)
(* instant.  In a zone that observes daylight saving time the offset drops *)
(* by DstShift ticks at the instant the clocks are set back.               *)
(***************************************************************************)
Times == 1 .. MaxTime

\* The local zone: NONE when its offset never changes, else the timestamp at
\* which the clocks are set back.
Zones == {NONE} \cup Times

\* The files under the source paths: whether the walk counts the file (one of
\* the listed files, or a suffix in `extensions`) and its st_mtime.
SourceFiles == [tracked : BOOLEAN, mtime : Times]

\* datetime.fromtimestamp(ts), as a count of ticks of wall-clock time
fromtimestamp(ts, zone) ==
    IF zone # NONE /\ ts < zone THEN ts + DstShift ELSE ts

\* get_build_info()['debug']: build is the artifact's st_mtime, NONE when
\* DEBUG_APK does not exist.
get_build_info(build, zone) ==
    [exists |-> build # NONE,
     time |-> IF build # NONE THEN fromtimestamp(build, zone) ELSE NONE]

\* get_latest_source_modification(): None without a tracked file
get_latest_source_modification(files, zone) ==
    LET local == {fromtimestamp(f.mtime, zone) : f \in {g \in files : g.tracked}}
    IN  IF local = {} THEN NONE
        ELSE CHOOSE t \in local : \A u \in local : u <= t

\* check_rebuild_needed()[0]
check_rebuild_needed(build, files, zone) ==
    LET build_info == get_build_info(build, zone)
        source_time == get_latest_source_modification(files, zone)
    IN  IF ~build_info.exists THEN TRUE
        ELSE IF source_time = NONE THEN FALSE
        ELSE source_time > build_info.time

\* One call of check_rebuild_needed on the files as they are.
CheckRebuild ==
    /\ rb_pc = "idle"
    /\ rb_out' = IF check_rebuild_needed(rb_build, rb_files, rb_zone)
                 THEN "true" ELSE "false"
    /\ rb_pc' = "done"
    /\ UNCHANGED <<rb_build, rb_files, rb_zone>>
    /\ UNCHANGED nonRebuildVars

\* Any artifact, any source files, any zone.
InitRebuild ==
    /\ fileExists = FALSE
    /\ file = EmptyRec
    /\ DeployIdle
    /\ MobileIdle
    /\ RunIdle
    /\ SetupIdle
    /\ DesktopIdle
    /\ rb_pc = "idle"
    /\ rb_build \in {NONE} \cup Times
    /\ rb_files \in SUBSET SourceFiles
    /\ rb_zone \in Zones
    /\ rb_out = "none"

SpecRebuild == InitRebuild /\ [][CheckRebuild]_vars

(***************************************************************************)
(* Properties of check_rebuild_needed                                      *)
(***************************************************************************)
\* C16: check_rebuild_needed reports that a rebuild is needed exactly when
\* no debug artifact exists or the latest modification time of a tracked
\* source file is strictly later than the artifact's modification time
\* (so not when the two are equal, and not when there is no tracked source).
C16_RebuildExactlyWhenSourceLater ==
    rb_pc = "done" =>
       (rb_out = "true" <=>
           \/ rb_build = NONE
           \/ \E f \in rb_files : f.tracked /\ f.mtime > rb_build)

(***************************************************************************)
(* Properties of mobile_setup.py: the deploy menu actions                  *)
(***************************************************************************)
MobileEvs(kind) == {i \in DOMAIN m_log : m_log[i].k = kind}

Said(line) == \E i \in MobileEvs("say") : m_log[i].n = line

\* smart_deploy has returned and the tool is in the pause before the next
\* dashboard.
SmartDeployDone == m_act = "1" /\ m_pc = "dash" /\ has_device

\* C17: smart_deploy runs the build toolchain exactly when no debug build
\* exists or a rebuild is needed, and otherwise installs the existing
\* artifact; the app is launched only after the install step exited zero;
\* and "Deployed successfully!" is reported exactly when the build or
\* install step exited zero.
C17_SmartDeploy ==
    /\ \A l \in MobileEvs("launch") :
          \E i \in MobileEvs("install") : i < l /\ m_log[i].rc = 0
    /\ SmartDeployDone =>
          LET needed == ~m_dash.has_build \/ m_dash.rebuild_needed
              steps == MobileEvs("build") \cup MobileEvs("install")
          IN  /\ Cardinality(steps) = 1
              /\ MobileEvs("build") # {} <=> needed
              /\ MobileEvs("install") # {} <=> ~needed
              /\ Said("Deployed successfully!")
                    <=> \E i \in steps : m_log[i].rc = 0
              /\ Said("Deployment failed")
                    <=> \E i \in steps : m_log[i].rc # 0

C17_Witness ==
    /\ SmartDeployDone
    /\ m_dash.has_build
    /\ ~m_dash.rebuild_needed
    /\ MobileEvs("launch") # {}
    /\ Said("Deployed successfully!")

\* The devices of the last dashboard whose status is exactly 'device'.
StatusDevice == {d \in Range(m_dash.devices) : d.status = "device"}

\* C18: only a device whose status is exactly 'device' can be a deploy
\* target; and when no device has that status the deploy and full-rebuild
\* menu actions start no bundler, build, port forwarding or install.
C18_OnlyAuthorizedDevices ==
    /\ \A i \in DOMAIN m_log :
          m_log[i].k \in {"forward", "clean", "build", "install", "launch"}
             => \E d \in StatusDevice : d.id = m_log[i].n
    /\ m_target # "none" => \E d \in StatusDevice : d.id = m_target
    /\ (m_act \in {"1", "2"} /\ StatusDevice = {})
          => /\ \A i \in DOMAIN m_log : m_log[i].k = "say"
             /\ m_pc \in {"dash", "menu"}

C18_Witness ==
    /\ m_act = "2"
    /\ m_dash.devices = <<[id |-> "A", status |-> "unauthorized"]>>
    /\ m_log = <<MobileEv("say", "Connect a device first.", 0)>>
    /\ m_pc = "dash"

\* C19: a bundler started in the background is terminated when the tool is
\* interrupted: after the tool has exited on Ctrl+C no bundler it spawned is
\* still running.
C19_NoBundlerAfterInterrupt ==
    (m_pc = "idle" /\ m_how = "interrupt") => Alive(bundler) = {}

(***************************************************************************)
(* Properties of start-desktop.py: prerequisites and unknown commands      *)
(***************************************************************************)
\* The steps of the launcher that change something or start the app.
DesktopSteps == {"pnpm install", "pnpm dev", "pnpm build", "pnpm package"}

DesktopStepsRun == {i \in DOMAIN sd_log : sd_log[i].n \in DesktopSteps}

DesktopSaid(line) ==
    \E i \in DOMAIN sd_log : sd_log[i].k = "say" /\ sd_log[i].n = line

\* C21: no dependency installation and no dev, build or package step runs
\* unless both Node.js and pnpm were found: a failed prerequisites check
\* exits with status 1 before any of them; and the help command prints the
\* usage without running the prerequisites check or any step.
C21_NoStepWithoutPrerequisites ==
    /\ \A i \in DesktopStepsRun :
          /\ \E j \in 1 .. i - 1 : sd_log[j].n = "node -v"
          /\ \E j \in 1 .. i - 1 : sd_log[j].n = "pnpm -v"
    /\ (DesktopSaid("Node.js not found") \/ DesktopSaid("pnpm not found"))
          => /\ sd_pc = "exited"
             /\ sd_exit = 1
             /\ DesktopStepsRun = {}
    /\ (sd_cmd \in {"help", "--help", "-h"} /\ sd_pc # "idle")
          => /\ sd_log = <<DesktopEv("say", "show_help", 0)>>
             /\ sd_pc = "exited"
             /\ sd_exit = 0

C21_Witness ==
    /\ sd_cmd = "build"
    /\ DesktopSaid("pnpm not found")
    /\ ~DesktopSaid("Node.js not found")
    /\ sd_exit = 1

\* C30: an unrecognised command is rejected before any side-effecting step:
\* for a command other than dev, build, package or help the launcher exits
\* with status 1 without having run the dependency installation or any dev,
\* build or package step.
C30_UnknownCommandRunsNothing ==
    (sd_pc # "idle" /\ sd_cmd = "bogus")
       => /\ DesktopStepsRun = {}
          /\ sd_pc = "exited" => sd_exit = 1

(***************************************************************************)
(* Properties of run.py: the wait loop and cleanup_processes               *)
(***************************************************************************)
\* C23: the wait loop of local all-services mode ends, and cleanup runs,
\* exactly when one poll finds neither the API nor the web process running,
\* or on an interrupt; while at least one of the two is running the loop
\* goes on, also when the other has exited or was never started.
C23_WaitLoopEnds ==
    [][r_pc = "all:wait" =>
         /\ r_pc' \in {"all:wait", "loop:term", "signal:term"}
         /\ r_pc' = "loop:term" =>
               \A k \in DOMAIN r_kids : r_kids[k].st # "running"
         /\ (\E k \in DOMAIN r_kids : r_kids[k].st = "running") =>
               \/ r_pc' = "all:wait"
               \/ /\ r_pc' = "signal:term"
                  /\ r_log' = Append(r_log, RunEv("signal", "SIGINT", 0))]_vars

\* The loop has ended by a poll: the API never started, the web process has
\* exited.
C23_Witness ==
    /\ r_pc = "loop:term"
    /\ r_kids["api"].st = "none"
    /\ r_kids["web"].st = "dead"
    /\ r_kids["web"].tracked

SentTo(sig, k) == {i \in DOMAIN r_log : r_log[i] = RunEv(sig, k, 0)}

\* The events a step appends to the log.
Appended ==
    IF Len(r_log') >= Len(r_log)
    THEN {r_log'[i] : i \in (Len(r_log) + 1) .. Len(r_log')}
    ELSE {}

\* The step is the first loop of a cleanup_processes run, the second loop.
FirstLoopRuns ==
    \E c \in CleanupRuns : r_pc = c \o ":term" /\ r_pc' = c \o ":sleep"

SecondLoopRuns ==
    \E c \in CleanupRuns :
       r_pc = c \o ":kill" /\ r_pc' \in {"atexit:term", "exited"}

\* C24: cleanup_processes follows a two-phase order: every tracked process
\* still running is first sent the terminate signal, a forced kill is sent
\* only after the grace delay and only to tracked processes that are still
\* running then, and a process that had already exited receives no signal.
C24_TwoPhaseCleanup ==
    /\ [](\A k \in DOMAIN r_kids : \A i \in SentTo("KILL", k) :
            \E j \in SentTo("TERM", k) : \E d \in (j + 1) .. (i - 1) :
               r_log[d] = RunEv("sleep", "1", 0))
    /\ [][\A k \in DOMAIN r_kids :
            /\ (RunEv("TERM", k, 0) \in Appended
                  \/ RunEv("KILL", k, 0) \in Appended)
                  => r_kids[k].tracked /\ r_kids[k].st = "running"
            /\ (FirstLoopRuns
                  /\ r_kids[k].tracked /\ r_kids[k].st = "running")
                  => RunEv("TERM", k, 0) \in Appended
            /\ (SecondLoopRuns
                  /\ r_kids[k].tracked /\ r_kids[k].st = "running")
                  => RunEv("KILL", k, 0) \in Appended]_vars

\* The web process had exited before cleanup started and was sent nothing;
\* the API was sent SIGTERM, outlived the grace delay and was killed.
C24_Witness ==
    /\ r_kids["web"].st = "dead"
    /\ r_kids["web"].tracked
    /\ SentTo("TERM", "web") = {}
    /\ SentTo("TERM", "api") # {}
    /\ SentTo("KILL", "api") # {}

\* C27: cleanup_processes is safe to run more than once: a run that follows
\* a completed cleanup (the atexit hook after signal_handler or after
\* local_start_all) sends no signal to any process.
C27_SecondCleanupSendsNothing ==
    \A i \in DOMAIN r_log :
       r_log[i].k = "cleaned" =>
          \A j \in (i + 1) .. Len(r_log) : r_log[j].k \notin {"TERM", "KILL"}

(***************************************************************************)
(* Properties of deploy.py: the configuration at a remote command          *)
(***************************************************************************)
\* The events a step of the deploy tool appends to its log.
DeployAppended ==
    IF Len(d_log') >= Len(d_log)
    THEN {d_log'[i] : i \in (Len(d_log) + 1) .. Len(d_log')}
    ELSE {}

IsRemote(e) == e.k \in {"ssh", "scp", "rsync"}

\* C22: at every point at which the deploy tool, in CLI mode or from the
\* menu, issues a remote command, the configuration it uses is the persisted
\* record merged with the defaults as the file stands at that moment.  One
\* process of the tool runs at a time and nothing else writes the file.
C22_RemoteCommandUsesPersistedConfig ==
    [][(\E e \in DeployAppended : IsRemote(e)) => config = load_config]_vars

\* The menu has issued a remote command with a host that was typed in and
\* saved by this process.
C22_Witness ==
    /\ d_mode = "menu"
    /\ \E i, j \in DOMAIN d_log :
         /\ i < j
         /\ d_log[i] = Say("ok", "Config saved")
         /\ IsRemote(d_log[j])
    /\ config = load_config
    /\ config # DEFAULT_CONFIG

\* C25: no remote command is issued with an empty server host: whenever an
\* ssh, scp or rsync target is built, server_host is non-empty and is the
\* host the file holds, because ensure_config has obtained and saved a host
\* or has ended the process with status 1 before.
C25_NoRemoteTargetWithoutHost ==
    /\ []("" \notin d_targets)
    /\ [][(d_targets' \ d_targets # {} \/ \E e \in DeployAppended : IsRemote(e))
            => /\ config["server_host"] # ""
               /\ fileExists
               /\ "server_host" \in DOMAIN file
               /\ file["server_host"] = config["server_host"]]_vars
    /\ []((\E i \in DOMAIN d_log : d_log[i] = Say("err", "Server host is required"))
            => d_pc = "exited" /\ d_exit = 1 /\ d_targets = {})

\* The log viewer of the menu has built a target after ensure_config asked
\* for the host.
C25_Witness ==
    /\ d_mode = "menu"
    /\ d_cmd = "interactive_logs"
    /\ d_targets = {"h1"}
    /\ \E i \in DOMAIN d_log : d_log[i] = Say("warn", "No server configured")

(***************************************************************************)
(* Properties of deploy.py: the stages of cmd_push and the image archive   *)
(***************************************************************************)
PushOps == <<"inspect ", "save ", "upload ", "load ">>

\* The positions of the log where a stage of cmd_push ran.
PushStagesAt == { i \in DOMAIN d_log : IsRun(d_log[i]) /\ d_log[i].n \in PushRuns }

\* The number of the stage that ran at position i, and its service.
StageNo(i) ==
    CHOOSE n \in DOMAIN PushOps : \E s \in ImageServices : d_log[i].n = PushOps[n] \o s

StageService(i) ==
    CHOOSE s \in ImageServices : d_log[i].n = PushOps[StageNo(i)] \o s

\* The positions of the log where stage n of the push of service s ran.
PushStageAt(n, s) == { i \in PushStagesAt : d_log[i].n = PushOps[n] \o s }

\* C26: for each service cmd_push runs inspect, save, upload, remote load and
\* the local delete in that order and ends the process with status 1 at the
\* first failing stage; the archive is deleted exactly when the remote load
\* succeeded, so a pushed service leaves no archive behind, and after a
\* failed upload or remote load the archive is still on disk.
C26_PushStagesAndArchive ==
    /\ [](\A i \in PushStagesAt :
            LET n == StageNo(i)
                s == StageService(i)
            IN  /\ n > 1 => /\ d_log[i - 1] = Ev(d_log[i - 1].k, PushOps[n - 1] \o s, 0)
                            /\ IsRun(d_log[i - 1])
                /\ d_log[i].rc # 0 =>
                      /\ d_pc = "exited"
                      /\ d_exit = 1
                      /\ Len(d_log) = i + 1
                      /\ d_log[i + 1].k = "err"
                      /\ n >= 3 => s \in d_tars
                /\ (d_log[i].rc = 0 /\ n < Len(PushOps) /\ i < Len(d_log)) =>
                      /\ IsRun(d_log[i + 1])
                      /\ d_log[i + 1].n = PushOps[n + 1] \o s
                /\ (d_log[i].rc = 0 /\ n = Len(PushOps)) =>
                      /\ i + 2 \in DOMAIN d_log
                      /\ d_log[i + 1] = Say("rm", "archive " \o s)
                      /\ d_log[i + 2] = Say("ok", "pushed " \o s)
                      /\ (\A j \in PushStageAt(2, s) : j < i) => s \notin d_tars)
    /\ [][\A s \in ImageServices :
            /\ (s \in d_tars /\ s \notin d_tars' /\ d_pc' # "idle") =>
                  Ev("ssh", "load " \o s, 0) \in DeployAppended
            /\ Ev("ssh", "load " \o s, 0) \in DeployAppended =>
                  /\ s \in d_tars
                  /\ s \notin d_tars'
                  /\ Say("rm", "archive " \o s) \in DeployAppended]_vars

\* `push web api`: web was pushed and its archive removed; the remote load
\* of api failed and its archive is on disk.
C26_Witness ==
    /\ d_cmd = "cmd_push"
    /\ d_svcs = <<"web", "api">>
    /\ \E i \in DOMAIN d_log : d_log[i] = Say("ok", "pushed web")
    /\ \E i \in PushStageAt(4, "api") : d_log[i].rc = NONE
    /\ d_tars = {"api"}
    /\ d_pc = "exited"
    /\ d_exit = 1

(***************************************************************************)
(* Properties of setup.py: setup_local                                     *)
(***************************************************************************)
LocalSteps == <<"prerequisites", "up postgres redis pgadmin", "pnpm install",
                "pnpm build", "dotnet restore", "ef database update",
                "extension", "completion">>

\* The steps of setup_local taken so far, in order.
LocalStepsRun == SelectSeq(s_log, LAMBDA e : e.k = "step")

\* The step ends setup_local: it returned False to a test that exits.
Aborts(e) ==
    \/ e.n \in {"prerequisites", "up postgres redis pgadmin", "pnpm build",
                "dotnet restore"} /\ e.rc # 0
    \/ e.n = "pnpm install" /\ e.rc = NONE

\* C28: local setup runs its steps in one fixed order, with the wait for
\* PostgreSQL between the start of the containers and the dependency
\* install; it ends with status 1, running no later step, when the
\* prerequisites fail, the containers do not start, `pnpm install` cannot be
\* run, the shared-types build fails or the package restore fails; a wait
\* that timed out, a non-zero exit of `pnpm install` and a failed migration
\* do not end it.
C28_LocalSetupOrderAndAborts ==
    s_mode = "local" =>
       /\ Len(LocalStepsRun) <= Len(LocalSteps)
       /\ \A i \in DOMAIN LocalStepsRun : LocalStepsRun[i].n = LocalSteps[i]
       /\ (s_pc \in {"pg:loop", "pg:probe", "pg:sleep"} =>
              Len(LocalStepsRun) = 2 /\ s_ret["pg"] = "none")
       /\ (Len(LocalStepsRun) >= 3 => s_ret["pg"] \in {"true", "false"})
       /\ (Len(LocalStepsRun) < 3 /\ s_pc # "l:install" => s_ret["pg"] = "none")
       /\ \A i \in DOMAIN LocalStepsRun :
             Aborts(LocalStepsRun[i]) =>
                /\ i = Len(LocalStepsRun)
                /\ s_pc = "exited"
                /\ s_exit = 1
       /\ (s_pc = "exited" =>
              \/ /\ s_exit = 1
                 /\ LocalStepsRun # <<>>
                 /\ Aborts(LocalStepsRun[Len(LocalStepsRun)])
              \/ /\ s_exit = 0
                 /\ Len(LocalStepsRun) = Len(LocalSteps))

\* The setup has come to its completion message although the wait for
\* PostgreSQL timed out, `pnpm install` exited non-zero and the migration
\* could not be run.
C28_Witness ==
    /\ s_mode = "local"
    /\ s_pc = "exited"
    /\ s_exit = 0
    /\ s_ret["pg"] = "false"
    /\ \E i \in DOMAIN s_log : s_log[i] = SetupEv("step", "pnpm install", 1)
    /\ \E i \in DOMAIN s_log : s_log[i] = SetupEv("step", "ef database update", NONE)
    /\ s_log[Len(s_log)] = SetupEv("step", "completion", 0)

(***************************************************************************)
(* Properties of setup.py: the service monitor                             *)
(***************************************************************************)
\* What one pass of the monitor loop appends to the log.
PassLog == SubSeq(s_log', Len(s_log) + 1, Len(s_log'))

\* What was typed at the prompt `kind` during the pass; the commands it ran.
PassTyped(kind) == {PassLog[i].n : i \in {j \in DOMAIN PassLog : PassLog[j].k = kind}}
PassRuns == PassTyped("run")
PassFound == CHOOSE n \in 0 .. 2 : SetupEv("found", "containers", n) \in Range(PassLog)

ServiceNames == <<"api", "web">>

\* The service a completed selection stands for, "" when there is none.
Selection(typed, found) ==
    IF typed = "a" THEN "all"
    ELSE IF typed \in {"1", "2"} /\ ChoiceInt(typed) <= found
         THEN ServiceNames[ChoiceInt(typed)]
         ELSE ""

\* C29: in the service monitor rebuild-all runs only after the answer 'y' to
\* the confirmation; reload, restart and view-logs run only on the service,
\* or 'all', that select_service returned, and a cancel or an invalid choice
\* runs nothing; while no containers are found only 'start all' and 'quit'
\* have an effect; the loop ends only on 'q'.
C29_NoServiceActionWithoutSelection ==
    [][s_pc = "monitor" =>
         /\ "rebuild all" \in PassRuns =>
               /\ PassTyped("input") = {"3"}
               /\ PassTyped("confirm") \subseteq {"y", "Y"}
               /\ PassTyped("confirm") # {}
         /\ \A op \in {"reload", "restart", "logs"} :
              \A svc \in {"all", "api", "web"} :
                 op \o " " \o svc \in PassRuns =>
                    /\ PassTyped("input") =
                          {CASE op = "reload" -> "1" [] op = "restart" -> "2"
                             [] op = "logs" -> "4"}
                    /\ \E typed \in PassTyped("select") :
                          Selection(typed, PassFound) = svc
         /\ \A typed \in PassTyped("select") :
               Selection(typed, PassFound) = "" => PassRuns = {}
         /\ PassFound = 0 =>
               /\ PassRuns \subseteq {"start all"}
               /\ PassRuns # {} => PassTyped("input") = {"6"}
               /\ PassTyped("select") = {} /\ PassTyped("confirm") = {}
         /\ s_pc' # "monitor" <=> PassTyped("input") \subseteq {"q", "Q"}
         /\ s_pc' # "monitor" => s_pc' = "exited" /\ s_exit' = 0]_vars

\* With two containers found the operator chose restart and then service 2;
\* an earlier pass was cancelled at the selection.
C29_Witness ==
    /\ s_mode = "monitor"
    /\ \E i \in DOMAIN s_log :
          /\ i + 3 \in DOMAIN s_log
          /\ s_log[i] = SetupEv("found", "containers", 2)
          /\ s_log[i + 1] = SetupEv("input", "2", 0)
          /\ s_log[i + 2] = SetupEv("select", "2", 0)
          /\ s_log[i + 3] = SetupEv("run", "restart web", 0)
    /\ \E i \in DOMAIN s_log : s_log[i] = SetupEv("select", "c", 0)

====
